---- MODULE Spec2Model ----
(***************************************************************************)
(* Generation Tracker, Rate Limiter and the secure automation wrapper of   *)
(* the ChatGPT desktop bridge (services/async-image-generation, the        *)
(* unified-wrapper version; utils/security; utils/secure-applescript).     *)
(*                                                                         *)
(* Time.  The code stores instants (Date.now(), in ms) and only ever       *)
(* compares differences `Date.now() - instant`.  The model stores, for     *)
(* every instant the program keeps, the time ELAPSED since it (0 = "this   *)
(* very millisecond"); Tick(d) lets d ms pass and adds d to every stored   *)
(* value.  `t < Date.now() - X` in the code is `elapsed(t) > X` here, and  *)
(* `now - t < X` is `elapsed(t) < X`.  Elapsed times saturate at AgeCap,   *)
(* which is beyond every threshold the code compares with.                 *)
(*                                                                         *)
(* Suspension points.  The runtime is a single-threaded event loop: a      *)
(* handler runs atomically from one `await` of an external automation call *)
(* to the next.  Each action below is one such atomic stretch.             *)
(***************************************************************************)
EXTENDS Integers, Sequences, FiniteSets, TLC

\* ------------------------------------------------------------ bounds
\* Number of generation ids start() can hand out in one run (uuidv4 is
\* modelled as a counter: every id is fresh).
MaxIds == 2
\* Number of status calls that can be suspended at an automation call at once.
MaxCalls == 2
\* Number of steps (requests, completions of automation calls, clock
\* advances, changes of the window) in one run.
MaxSteps == 7
\* Largest number of image elements the ChatGPT window shows.
MaxImages == 1
BatchSteps == 4
\* Steps taken from the state with a full completed map (InitFull).
FullSteps == 4
\* Steps taken from the state with ten active jobs (InitCap).
CapSteps == 3
MaxLimiterSteps == 8

\* ------------------------------------------------- program constants
\* new RateLimiter(5, 60000)
MaxRequests == 5
WindowMs == 60000
\* tracker.activeGenerations.size >= 10
BatchLimit == 10
\* AsyncGenerationTracker.MAX_ACTIVE / MAX_COMPLETED
MAX_ACTIVE == 50
MAX_COMPLETED == 100
\* 30 * 60 * 1000 and 60 * 60 * 1000
ThirtyMinutes == 30 * 60 * 1000
OneHour == 60 * 60 * 1000

\* Elapsed times saturate here: older than every threshold of the code.
AgeCap == OneHour + ThirtyMinutes

\* The amounts of time one Tick lets pass: one limiter window, or thirty
\* minutes (so that "exactly 30 minutes" and "more than 30 minutes" both occur).
TickSteps == {WindowMs, ThirtyMinutes}
\* Finer steps for the limiter alone: half a window.
LimiterTicks == {WindowMs \div 2, WindowMs}

Ids == 1..MaxIds
Slots == 1..MaxCalls

\* The operation keys the wrapper and the services hand to the limiter.
Keys == {"start_image_generation", "image_generation", "ui_polling",
         "verify_new_image", "get_latest_image",
         "ask_chatgpt", "text_generation", "get_conversations", "conversation_list",
         "image_download"}

NoError == "undefined"
TimeoutError == "Generation timeout"
TriggerError == "Failed to trigger image generation"

\* ------------------------------------------------------- JS Map model
\* A Map is the sequence of its entries in insertion order; each entry is a
\* record with an `id` field.  set() on an existing key keeps its position.
MapHas(m, id) == \E i \in 1..Len(m) : m[i].id = id
MapGet(m, id) == m[CHOOSE i \in 1..Len(m) : m[i].id = id]
MapSet(m, rec) ==
    IF MapHas(m, rec.id)
    THEN [i \in 1..Len(m) |-> IF m[i].id = rec.id THEN rec ELSE m[i]]
    ELSE Append(m, rec)
MapDelete(m, id) == SelectSeq(m, LAMBDA r : r.id # id)
MapKeys(m) == {m[i].id : i \in 1..Len(m)}

\* ------------------------------------------------------------- clock
Older(a, d) == IF a + d > AgeCap THEN AgeCap ELSE a + d
OlderSeq(s, d) == [i \in 1..Len(s) |-> Older(s[i], d)]

VARIABLES
    activeGenerations,    \* Map id -> [id, started_at]
    completedGenerations, \* Map id -> [id, status, timestamp, error]
    requests,             \* RateLimiter.requests: key -> recorded instants
    trigger,              \* per id: the background trigger promise
    calls,                \* per slot: a status call suspended at an await
    ui,                   \* what the ChatGPT window shows
    nextId,               \* ids handed out so far + 1
    steps,                \* steps taken so far
    lastStart,            \* outcome of the latest start() call
    lastRet,              \* what the latest finished status() call returned
    returnedTerminal,     \* ids for which some status() call returned completed/failed
    uiChanged,            \* ids started before the latest change of the window
    granted,              \* per key: instants of the isAllowed() calls that returned true
    lastAllowed,          \* the latest isAllowed() call: key, result, and what was recorded before it
    latestIssued,         \* instants of the get_latest_image requests issued
    lastLatest,           \* outcome of the latest getLatestImage() call
    hist,                 \* how often cleanup() has run, and the ids whose trigger has failed
    ask,                  \* the askChatGPT() call in progress and its retry loop
    exec,                 \* the runAppleScript() call in progress
    tool,                 \* the tool call being dispatched and its response
    sec,                  \* the call of a security utility and what it returned
    disk,                 \* the files of the file system and the latest file operation
    backoff               \* a retry loop and the waits it has made between its attempts

vars == <<activeGenerations, completedGenerations, requests, trigger, calls, ui,
          nextId, steps, lastStart, lastRet, returnedTerminal, uiChanged,
          granted, lastAllowed, latestIssued, lastLatest, hist, ask, exec, tool,
          sec, disk, backoff>>
utilVars == <<sec, disk, backoff>>
serviceVars == <<ask, exec, tool, utilVars>>

trackerVars == <<activeGenerations, completedGenerations>>

\* --------------------------------------------------------- RateLimiter
\* requests.filter(time => now - time < this.windowMs)
ValidRequests(reqs) == SelectSeq(reqs, LAMBDA t : t < WindowMs)

\* isAllowed's result for a key whose recorded instants are reqs
IsAllowed_OffByOne(reqs) == Len(ValidRequests(reqs)) <= MaxRequests
IsAllowed(reqs) == Len(ValidRequests(reqs)) < MaxRequests

\* isAllowed's effect on the key's entry: a denied call sets nothing
Recorded_AlsoWhenDenied(reqs) == Append(ValidRequests(reqs), 0)
Recorded(reqs) ==
    IF IsAllowed(reqs) THEN Append(ValidRequests(reqs), 0) ELSE reqs

\* getRemainingRequests
GetRemainingRequests(reqs) ==
    IF MaxRequests - Len(ValidRequests(reqs)) > 0
    THEN MaxRequests - Len(ValidRequests(reqs)) ELSE 0

\* The limiter's map after isAllowed(key), and that call's result
Allowed(R, key) == IsAllowed(R[key])
Record(R, key) == [R EXCEPT ![key] = Recorded(R[key])]

\* ------------------------------------------------------------- Init
NoCall == [id |-> 0]
NoPrev == [status |-> "none", timestamp |-> 0, error |-> NoError]
NoRet == [id |-> 0, status |-> "none", timestamp |-> 0, error |-> NoError,
          poll |-> "none", expired |-> FALSE, fresh |-> FALSE,
          prev |-> NoPrev, moved |-> FALSE, uiSame |-> FALSE]

\* No cleanup() has run (cleanups is their number modulo 2) and no trigger
\* has failed
NoHist == [cleanups |-> 0, trigFailed |-> {}]
NoErr == [code |-> "none", retryable |-> "none", msg |-> "none"]
NoResult == [ok |-> FALSE, code |-> "none", msg |-> "none"]
\* No service call yet.  attempt: withRetry's loop counter; bodies: how often
\* the operation body has been entered; pending: what the try block has ended
\* with while the finally block restores the clipboard; limited: an attempt of
\* this call was refused by the rate limiter; again: the body was entered
\* after that; slotsAfter: limiter slots recorded after that.
IdleAsk ==
    [pc |-> "idle", op |-> "none", prompt |-> "none", attempt |-> 0, bodies |-> 0,
     pending |-> NoErr, err |-> NoErr, result |-> NoResult,
     limited |-> FALSE, again |-> FALSE, slotsAfter |-> 0]

NoMessage == [text |-> "none", upper |-> FALSE]
NoFail == [msg |-> NoMessage, attempt |-> 0, retried |-> FALSE, retries |-> 0]
\* No runAppleScript call yet.  attempt: the loop counter; calls: external
\* calls issued by this run; successAt: the value of calls when the external
\* call succeeded (0: it has not); lastFail: the latest failed attempt of this
\* run and whether it was retried.
IdleExec ==
    [pc |-> "idle", retries |-> 0, attempt |-> 0, calls |-> 0, successAt |-> 0,
     success |-> FALSE, error |-> NoMessage, lastFail |-> NoFail]

\* The request that carries no arguments
NoArgs == [operation |-> "undefined", prompt |-> "undefined",
           generation_id |-> "undefined", conversation_id |-> "undefined",
           download_image |-> "undefined", max_retries |-> "undefined",
           absent |-> TRUE]

\* A response envelope: what its text says and its isError field
Envelope(text, isError) == [text |-> text, isError |-> isError]
NoResponse == Envelope("none", "absent")

\* No tool call yet.  handler: the operation handler entered; failed: the
\* call ended in an error; cleanup: the background cleanup was scheduled.
IdleTool ==
    [pc |-> "idle", server |-> "none", name |-> "none", args |-> NoArgs,
     handler |-> "none", response |-> NoResponse, failed |-> FALSE,
     cleanup |-> FALSE]

\* No security utility has been called
IdleSec == [pc |-> "idle"]
\* No retry loop yet.  attempt: the loop counter; waits: for each wait made,
\* the counter, the capped exponential delay and what setTimeout was given.
IdleBackoff == [pc |-> "idle", loop |-> "none", maxRetries |-> 0, attempt |-> 0,
                waits |-> <<>>]
\* No file operation yet, no file on the disk.  op is the latest file
\* operation: its name and version, the file or directory it is about, whether
\* the script has reported the image saved, its outcome and the files it
\* has deleted.
NoTarget == [dir |-> <<>>, name |-> <<>>]
NoOp == [name |-> "none", version |-> "none", target |-> NoTarget,
         saved |-> FALSE, success |-> FALSE, error |-> "none", deleted |-> {},
         stuck |-> {}]
NoDisk == [pc |-> "idle", files |-> {}, op |-> NoOp]
\* getLatestImage() called without downloadPath
NoDownloadPath == [string |-> FALSE, absolute |-> FALSE, segments |-> <<>>,
                   undefined |-> TRUE]

Init ==
    /\ activeGenerations = <<>>
    /\ completedGenerations = <<>>
    /\ requests = [k \in Keys |-> <<>>]
    /\ trigger = [i \in Ids |-> "none"]
    /\ calls = [s \in Slots |-> NoCall]
    /\ ui = [generating |-> FALSE, images |-> 0]
    /\ nextId = 1
    /\ steps = 0
    /\ lastStart = [result |-> "none", id |-> 0, prompt |-> "none",
                    allowed |-> FALSE, activeBefore |-> 0, activeAfter |-> 0]
    /\ lastRet = NoRet
    /\ returnedTerminal = {}
    /\ uiChanged = {}
    /\ granted = [k \in Keys |-> <<>>]
    /\ lastAllowed = [key |-> "none", result |-> FALSE, before |-> <<>>, refused |-> 0]
    /\ latestIssued = <<>>
    /\ lastLatest = [result |-> "none", earlier |-> 0, downloadPath |-> NoDownloadPath]
    /\ hist = NoHist
    /\ ask = IdleAsk
    /\ exec = IdleExec
    /\ tool = IdleTool
    /\ sec = IdleSec
    /\ disk = NoDisk
    /\ backoff = IdleBackoff

\* ------------------------------------------------------------- start
\* The prompts tried: the empty one, one of exactly 4000 characters, one of
\* 4001 characters, and 4001 blanks.
MaxPromptLength == 4000
Prompts == {"ok", "blank", "too_long", "long_blank"}
PromptLength(p) ==
    CASE p = "ok" -> MaxPromptLength
      [] p \in {"too_long", "long_blank"} -> MaxPromptLength + 1
      [] OTHER -> 0
\* !prompt || !prompt.trim()
Blank(p) == p \in {"blank", "long_blank"}

\* tracker.activeGenerations.size >= 10
BatchFull_Lenient(n) == n > BatchLimit
BatchFull(n) == n >= BatchLimit

\* What startImageGeneration answers for a prompt, the instants recorded under
\* 'start_image_generation' and the number of active jobs: the checks in the
\* order of the code.  "id": a job is created and its id returned.
StartResult_NoLengthCheck(p, reqs, n) ==
    IF Blank(p) THEN "INVALID_INPUT"
    ELSE IF ~IsAllowed(reqs) THEN "RATE_LIMITED"
    ELSE IF BatchFull(n) THEN "BATCH_LIMIT_EXCEEDED"
    ELSE "id"
StartResult(p, reqs, n) ==
    IF Blank(p) THEN "INVALID_INPUT"
    ELSE IF PromptLength(p) > MaxPromptLength THEN "PROMPT_TOO_LONG"
    ELSE IF ~IsAllowed(reqs) THEN "RATE_LIMITED"
    ELSE IF BatchFull(n) THEN "BATCH_LIMIT_EXCEEDED"
    ELSE "id"

\* The limiter after the start call: the 'start_image_generation' check is
\* reached by every valid prompt; the background trigger, called in the same
\* stretch for a created job, runs executeSecureImageScript up to its await,
\* which passes through executeSecureAppleScript's check of 'image_generation'.
StartRequests_LimiterFirst(p, res) ==
    LET r1 == Record(requests, "start_image_generation")
    IN  IF res = "id" THEN Record(r1, "image_generation") ELSE r1
StartRequests(p, res) ==
    LET r1 == IF p = "ok" THEN Record(requests, "start_image_generation") ELSE requests
    IN  IF res = "id" THEN Record(r1, "image_generation") ELSE r1

\* The trigger promise of a job just created: rejected at once when the
\* wrapper's limiter refuses 'image_generation', else waiting for the script.
TriggerState(R) == IF Allowed(R, "image_generation") THEN "running" ELSE "rejected"

\* startImageGeneration for a prompt, with `id` the value uuidv4() returns
StartAs(p, id) ==
    LET res == StartResult(p, requests["start_image_generation"], Len(activeGenerations))
    IN  /\ requests' = StartRequests(p, res)
        /\ activeGenerations' =
             IF res = "id"
             THEN MapSet(activeGenerations, [id |-> id, started_at |-> 0])
             ELSE activeGenerations
        /\ trigger' =
             IF res = "id"
             THEN [trigger EXCEPT ![id] =
                     TriggerState(Record(requests, "start_image_generation"))]
             ELSE trigger
        /\ lastStart' = [result |-> res, id |-> IF res = "id" THEN id ELSE 0,
                         prompt |-> p,
                         allowed |-> p = "ok" /\ Allowed(requests, "start_image_generation"),
                         activeBefore |-> Len(activeGenerations),
                         activeAfter |-> Len(activeGenerations')]
        /\ returnedTerminal' =
             IF res = "id" THEN returnedTerminal \ {id} ELSE returnedTerminal
        /\ uiChanged' = IF res = "id" THEN uiChanged \ {id} ELSE uiChanged
        /\ lastRet' = IF res = "id" /\ lastRet.id = id THEN NoRet ELSE lastRet
        /\ UNCHANGED <<completedGenerations, calls, ui, granted,
                       lastAllowed, latestIssued, lastLatest, hist, serviceVars>>

Creates(p) ==
    StartResult(p, requests["start_image_generation"], Len(activeGenerations)) = "id"

\* uuidv4() as a counter: no id is handed out twice.
Start(p) ==
    /\ Creates(p) => nextId <= MaxIds
    /\ StartAs(p, nextId)
    /\ nextId' = IF Creates(p) THEN nextId + 1 ELSE nextId

\* ----------------------------------------------- the background trigger
\* The .catch callback of startImageGeneration
FailedRecord(id, err) ==
    [id |-> id, status |-> "failed", timestamp |-> 0, error |-> err]
CompletedRecord(id) ==
    [id |-> id, status |-> "completed", timestamp |-> 0, error |-> NoError]

ActiveAfterTriggerFailure_Kept(id) == activeGenerations
ActiveAfterTriggerFailure(id) == MapDelete(activeGenerations, id)

\* The trigger script ends: on success nothing is recorded; on failure (always,
\* for a rejected promise) the callback records the failure.
TriggerSettled(id, ok) ==
    /\ trigger[id] # "none"
    /\ ok => trigger[id] = "running"
    /\ trigger' = [trigger EXCEPT ![id] = "none"]
    /\ IF ok
       THEN UNCHANGED trackerVars
       ELSE /\ completedGenerations' =
                 MapSet(completedGenerations, FailedRecord(id, TriggerError))
            /\ activeGenerations' = ActiveAfterTriggerFailure(id)
    /\ hist' = IF ok THEN hist
               ELSE [hist EXCEPT !.trigFailed = hist.trigFailed \cup {id}]
    /\ UNCHANGED <<requests, calls, ui, nextId, lastStart, lastRet,
                   returnedTerminal, uiChanged, granted, lastAllowed,
                   latestIssued, lastLatest, serviceVars>>

\* ------------------------------------------------------------ status
\* AsyncGenerationTracker.getStatus: completed first, then active, else null
GetStatus_ActiveFirst(id) ==
    IF MapHas(activeGenerations, id)
    THEN [id |-> id, status |-> "generating",
          timestamp |-> MapGet(activeGenerations, id).started_at, error |-> NoError]
    ELSE IF MapHas(completedGenerations, id)
    THEN MapGet(completedGenerations, id)
    ELSE [id |-> id, status |-> "null", timestamp |-> 0, error |-> NoError]
GetStatus_UnknownPending(id) ==
    IF MapHas(completedGenerations, id)
    THEN MapGet(completedGenerations, id)
    ELSE [id |-> id, status |-> "generating",
          timestamp |-> IF MapHas(activeGenerations, id)
                        THEN MapGet(activeGenerations, id).started_at ELSE 0,
          error |-> NoError]
GetStatus(id) ==
    IF MapHas(completedGenerations, id)
    THEN MapGet(completedGenerations, id)
    ELSE IF MapHas(activeGenerations, id)
    THEN [id |-> id, status |-> "generating",
          timestamp |-> MapGet(activeGenerations, id).started_at, error |-> NoError]
    ELSE [id |-> id, status |-> "null", timestamp |-> 0, error |-> NoError]

\* What a finished status call hands back, with what its UI poll reported
\* ("none": no poll; "rate_limited": the wrapper refused it; "failed": the
\* automation call failed; "incomplete" / "complete": the window as polled),
\* whether the job was already over thirty minutes old when the call was made,
\* whether the call was made and answered in the instant of the start with
\* the window as it was at the start, the record the previous status call had
\* returned for the same id when this call was made (should the window not
\* have changed since), and whether this call wrote to the tracker.
Ret(st, poll, expired, fresh, prev, moved) ==
    [id |-> st.id, status |-> st.status, timestamp |-> st.timestamp,
     error |-> st.error, poll |-> poll, expired |-> expired, fresh |-> fresh,
     prev |-> prev, moved |-> moved, uiSame |-> TRUE]

\* The record of the latest status return, if it was for this id and the
\* window has not changed since
PrevOf(id) ==
    IF lastRet.id = id /\ lastRet.uiSame
    THEN [status |-> lastRet.status, timestamp |-> lastRet.timestamp,
          error |-> lastRet.error]
    ELSE NoPrev

Terminal(status) == status \in {"completed", "failed"}

Returns(r) ==
    /\ lastRet' = r
    /\ returnedTerminal' =
         IF Terminal(r.status) THEN returnedTerminal \cup {r.id} ELSE returnedTerminal

FreeSlot == CHOOSE s \in Slots : calls[s] = NoCall /\ \A t \in Slots : t < s => calls[t] # NoCall

\* status.timestamp < Date.now() - 30 * 60 * 1000
TimedOut_AtThirty(timestamp) == timestamp >= ThirtyMinutes
TimedOut(timestamp) == timestamp > ThirtyMinutes

\* checkGenerationStatus up to its first await: getStatus, and for a job still
\* generating the call of executeSecureUIPolling, which runs through
\* executeSecureAppleScript's limiter check of 'ui_polling' before it awaits
\* the script.  A refused poll throws RATE_LIMITED, which checkGenerationStatus
\* catches: the call returns the status it read.
StatusBegin(id) ==
    LET st == GetStatus(id)
        expired == TimedOut(st.timestamp)
        early == st.timestamp = 0
    IN  /\ IF st.status # "generating"
           THEN /\ Returns(Ret(st, "none", FALSE, FALSE, PrevOf(id), FALSE))
                /\ UNCHANGED <<requests, calls>>
           ELSE IF ~Allowed(requests, "ui_polling")
           THEN /\ Returns(Ret(st, "rate_limited", expired,
                                early /\ id \notin uiChanged, PrevOf(id), FALSE))
                /\ UNCHANGED <<requests, calls>>
           ELSE /\ \E s \in Slots : calls[s] = NoCall
                /\ requests' = Record(requests, "ui_polling")
                /\ calls' = [calls EXCEPT ![FreeSlot] =
                               [id |-> id, timestamp |-> st.timestamp, pc |-> "poll",
                                expired |-> expired,
                                prev |-> PrevOf(id)]]
                /\ UNCHANGED <<lastRet, returnedTerminal>>
        /\ UNCHANGED <<trackerVars, trigger, ui, nextId, lastStart,
                       uiChanged, granted, lastAllowed, latestIssued, lastLatest, hist, serviceVars>>

\* executeSecureUIPolling's answer: the parsed window on success, and
\* {isGenerating: false, hasRecentImage: false, imageCount: 0} on failure
UIStatus(ok) ==
    IF ok
    THEN [isGenerating |-> ui.generating, hasRecentImage |-> ui.images > 0,
          imageCount |-> ui.images]
    ELSE [isGenerating |-> FALSE, hasRecentImage |-> FALSE, imageCount |-> 0]

\* uiStatus.isGenerating === false && uiStatus.hasRecentImage && uiStatus.imageCount > 0
CompletionSeen_AnyImage(u) == u.hasRecentImage /\ u.imageCount > 0
CompletionSeen(u) == u.isGenerating = FALSE /\ u.hasRecentImage /\ u.imageCount > 0

PollLabel(ok) ==
    IF ~ok THEN "failed"
    ELSE IF CompletionSeen(UIStatus(ok)) THEN "complete" ELSE "incomplete"

\* "Move to completed": set the record, delete the job, return the record
MoveToCompleted(c, poll) ==
    /\ completedGenerations' = MapSet(completedGenerations, CompletedRecord(c.id))
    /\ activeGenerations' = MapDelete(activeGenerations, c.id)
    /\ Returns(Ret(CompletedRecord(c.id), poll, c.expired,
                   c.timestamp = 0 /\ c.id \notin uiChanged, c.prev, TRUE))

\* The timeout check on the status read before the poll, and the final
\* `return status`
TimeoutOrReturn(c, poll) ==
    IF TimedOut(c.timestamp)
    THEN /\ completedGenerations' =
              MapSet(completedGenerations, FailedRecord(c.id, TimeoutError))
         /\ activeGenerations' = MapDelete(activeGenerations, c.id)
         /\ Returns(Ret(FailedRecord(c.id, TimeoutError), poll, c.expired,
                        c.timestamp = 0 /\ c.id \notin uiChanged, c.prev, TRUE))
    ELSE /\ UNCHANGED trackerVars
         /\ Returns(Ret([id |-> c.id, status |-> "generating",
                         timestamp |-> c.timestamp, error |-> NoError],
                        poll, c.expired, c.timestamp = 0 /\ c.id \notin uiChanged,
                        c.prev, FALSE))

\* The UI poll of a suspended status call ends.  When it shows a finished
\* generation, verifyNewImageGenerated is called: its wrapper call checks
\* 'verify_new_image' with the limiter; refused, it throws inside
\* verifyNewImageGenerated's own try, whose catch answers true.
PollDone(s, ok) ==
    LET c == calls[s]
    IN  /\ c # NoCall
        /\ c.pc = "poll"
        /\ IF CompletionSeen(UIStatus(ok))
           THEN IF Allowed(requests, "verify_new_image")
                THEN /\ requests' = Record(requests, "verify_new_image")
                     /\ calls' = [calls EXCEPT ![s].pc = "verify"]
                     /\ UNCHANGED <<trackerVars, lastRet, returnedTerminal>>
                ELSE /\ MoveToCompleted(c, "complete")
                     /\ calls' = [calls EXCEPT ![s] = NoCall]
                     /\ UNCHANGED requests
           ELSE /\ TimeoutOrReturn(c, PollLabel(ok))
                /\ calls' = [calls EXCEPT ![s] = NoCall]
                /\ UNCHANGED requests
        /\ UNCHANGED <<trigger, ui, nextId, lastStart, uiChanged,
                       granted, lastAllowed, latestIssued, lastLatest, hist, serviceVars>>

\* verifyNewImageGenerated's script ends: result.success && result.data === 'true',
\* and the script answers true exactly when the window holds an image.
IsNewImage(ok) == ok /\ ui.images > 0

VerifyDone(s, ok) ==
    LET c == calls[s]
    IN  /\ c # NoCall
        /\ c.pc = "verify"
        /\ IF IsNewImage(ok)
           THEN MoveToCompleted(c, "complete")
           ELSE TimeoutOrReturn(c, "complete")
        /\ calls' = [calls EXCEPT ![s] = NoCall]
        /\ UNCHANGED <<requests, trigger, ui, nextId, lastStart, uiChanged,
                       granted, lastAllowed, latestIssued, lastLatest, hist, serviceVars>>

\* checkGenerationStatus called with an id that fails its validation (the
\* empty string): it throws INVALID_INPUT before it reads the tracker.
EmptyId == -1
InvalidIdError == "Invalid generation ID provided"
StatusInvalid ==
    /\ Returns(Ret([id |-> EmptyId, status |-> "INVALID_INPUT", timestamp |-> 0,
                     error |-> InvalidIdError],
                    "none", FALSE, FALSE, NoPrev, FALSE))
    /\ UNCHANGED <<trackerVars, requests, trigger, calls, ui, nextId, lastStart,
                   uiChanged, granted, lastAllowed, latestIssued, lastLatest,
                   hist, serviceVars>>

\* ----------------------------------------------------------- cleanup
\* status.timestamp < Date.now() - 60 * 60 * 1000
Stale_AtOneHour(timestamp) == timestamp >= OneHour
Stale(timestamp) == timestamp > OneHour

\* Array.from(map.entries()).sort(oldest first).slice(0, size - max), deleted:
\* the sort is stable, so entries of one instant keep their insertion order.
\* ages[i] is the time elapsed since the instant of entry i.
Rank_NewestFirst(ages, i) ==
    Cardinality({j \in 1..Len(ages) :
                   \/ ages[j] < ages[i]
                   \/ (ages[j] = ages[i] /\ j < i)})
Rank(ages, i) ==
    Cardinality({j \in 1..Len(ages) :
                   \/ ages[j] > ages[i]
                   \/ (ages[j] = ages[i] /\ j < i)})
Keep_CapBelowBatch(m, ages, max) ==
    IF Len(m) > BatchLimit - 1
    THEN LET idx == {i \in 1..Len(m) : Rank(ages, i) < Len(m) - (BatchLimit - 1)}
         IN  SelectSeq(m, LAMBDA r : \A i \in idx : m[i].id # r.id)
    ELSE m
Keep(m, ages, max) ==
    IF Len(m) > max
    THEN LET idx == {i \in 1..Len(m) : Rank(ages, i) < Len(m) - max}
         IN  SelectSeq(m, LAMBDA r : \A i \in idx : m[i].id # r.id)
    ELSE m

StartedAt(m) == [i \in 1..Len(m) |-> m[i].started_at]
Timestamp(m) == [i \in 1..Len(m) |-> m[i].timestamp]

\* The completed map after the one-hour sweep
Swept(m) == SelectSeq(m, LAMBDA r : ~Stale(r.timestamp))

\* AsyncGenerationTracker.cleanup (the five-minute interval and the
\* dispatcher's background cleanup both call it)
Cleanup ==
    /\ completedGenerations' =
         Keep(Swept(completedGenerations), Timestamp(Swept(completedGenerations)),
              MAX_COMPLETED)
    /\ activeGenerations' =
         Keep(activeGenerations, StartedAt(activeGenerations), MAX_ACTIVE)
    /\ hist' = [hist EXCEPT !.cleanups = 1 - hist.cleanups]
    /\ UNCHANGED <<requests, trigger, calls, ui, nextId, lastStart, lastRet,
                   returnedTerminal, uiChanged, granted, lastAllowed,
                   latestIssued, lastLatest, serviceVars>>

\* ------------------------------------------- the limiter, called directly
\* globalRateLimiter.isAllowed(key)
IsAllowedCall(key) ==
    /\ requests' = Record(requests, key)
    /\ granted' = IF Allowed(requests, key)
                  THEN [granted EXCEPT ![key] = Append(@, 0)]
                  ELSE granted
    /\ lastAllowed' = [key |-> key, result |-> Allowed(requests, key),
                       before |-> granted[key],
                       refused |-> IF Allowed(requests, key)
                                   THEN lastAllowed.refused
                                   ELSE lastAllowed.refused + 1]
    /\ UNCHANGED <<trackerVars, trigger, calls, ui, nextId, lastStart, lastRet,
                   returnedTerminal, uiChanged, latestIssued, lastLatest, hist, serviceVars>>

\* ---------------------------------------------------- getLatestImage
\* getLatestImage without a download path, up to its await: its own check of
\* 'get_latest_image', then executeSecureAppleScript(script, 'get_latest_image'),
\* which checks the same key again before it runs the script.  Either refusal
\* throws RATE_LIMITED; "ui_call": the script is handed to the automation layer.
LatestOuter(R) == Allowed(R, "get_latest_image")
LatestInner(R) == Allowed(Record(R, "get_latest_image"), "get_latest_image")
\* The downloadPath arguments tried: none, the file /s/d/i.png of the
\* designated directory /s/d, and the paths ../../e and /s/d2/i.png outside
\* it.  The dispatcher passes save_path, which it has checked to be a string
\* when it is there.
DownloadPaths ==
    { NoDownloadPath,
      [string |-> TRUE, absolute |-> TRUE,
       segments |-> <<<<"s">>, <<"d">>, <<"i", ".", "png">>>>],
      [string |-> TRUE, absolute |-> FALSE,
       segments |-> <<<<".", ".">>, <<".", ".">>, <<"e">>>>],
      [string |-> TRUE, absolute |-> TRUE,
       segments |-> <<<<"s">>, <<"d", "2">>, <<"i", ".", "png">>>>] }
LatestResult(R, downloadPath) ==
    IF ~LatestOuter(R) THEN "RATE_LIMITED"
    ELSE IF downloadPath # NoDownloadPath /\ ~downloadPath.string THEN "INVALID_INPUT"
    ELSE IF ~LatestInner(R) THEN "RATE_LIMITED"
    ELSE "ui_call"
LatestRequests(R) ==
    IF LatestOuter(R)
    THEN Record(Record(R, "get_latest_image"), "get_latest_image")
    ELSE R

GetLatestImage(downloadPath) ==
    /\ requests' = LatestRequests(requests)
    /\ granted' =
         [granted EXCEPT !["get_latest_image"] =
            IF ~LatestOuter(requests) THEN @
            ELSE IF ~LatestInner(requests) THEN Append(@, 0)
            ELSE Append(Append(@, 0), 0)]
    /\ lastLatest' =
         [result |-> LatestResult(requests, downloadPath),
          earlier |-> Len(SelectSeq(latestIssued, LAMBDA t : t < WindowMs)),
          downloadPath |-> downloadPath]
    /\ latestIssued' = Append(latestIssued, 0)
    /\ UNCHANGED <<trackerVars, trigger, calls, ui, nextId, lastStart, lastRet,
                   returnedTerminal, uiChanged, lastAllowed, hist, serviceVars>>

\* ------------------------------------------------------- environment
\* The ChatGPT window changes: a "Generating..." text appears, or it goes
\* away without an image, or a generation ends and one more image is shown.
UIAfter(kind) ==
    CASE kind = "indicator" -> [ui EXCEPT !.generating = TRUE]
      [] kind = "stopped" -> [ui EXCEPT !.generating = FALSE]
      [] kind = "image" ->
           [generating |-> FALSE,
            images |-> IF ui.images < MaxImages THEN ui.images + 1 ELSE ui.images]
UIChanges == {"indicator", "stopped", "image"}

UIChange(kind) ==
    /\ UIAfter(kind) # ui
    /\ ui' = UIAfter(kind)
    /\ uiChanged' = Ids
    /\ lastRet' = [lastRet EXCEPT !.uiSame = FALSE]
    /\ calls' = [s \in Slots |->
                   IF calls[s] = NoCall THEN NoCall
                   ELSE [calls[s] EXCEPT !.prev = NoPrev]]
    /\ UNCHANGED <<trackerVars, requests, trigger, nextId, lastStart,
                   returnedTerminal, granted, lastAllowed,
                   latestIssued, lastLatest, hist, serviceVars>>

\* d milliseconds pass.
OlderPrev(r, d) ==
    IF r = NoPrev THEN NoPrev ELSE [r EXCEPT !.timestamp = Older(@, d)]

Tick(d) ==
    /\ activeGenerations' =
         [i \in 1..Len(activeGenerations) |->
            [activeGenerations[i] EXCEPT !.started_at = Older(@, d)]]
    /\ completedGenerations' =
         [i \in 1..Len(completedGenerations) |->
            [completedGenerations[i] EXCEPT !.timestamp = Older(@, d)]]
    /\ requests' = [k \in Keys |-> OlderSeq(requests[k], d)]
    /\ granted' = [k \in Keys |-> OlderSeq(granted[k], d)]
    /\ calls' = [s \in Slots |->
                   IF calls[s] = NoCall THEN NoCall
                   ELSE [calls[s] EXCEPT !.timestamp = Older(@, d),
                                         !.prev = OlderPrev(@, d)]]
    /\ lastRet' = IF lastRet = NoRet THEN NoRet
                  ELSE [lastRet EXCEPT !.timestamp = Older(@, d),
                                       !.prev = OlderPrev(@, d)]
    /\ latestIssued' = OlderSeq(latestIssued, d)
    /\ UNCHANGED <<trigger, ui, nextId, lastStart, returnedTerminal, uiChanged,
                   lastAllowed, lastLatest, hist, serviceVars>>

\* ------------------------------------------------------ specification
\* Every step counts against the run's budget.
Budget == steps < MaxSteps /\ steps' = steps + 1

\* The ids a client can ask about: those start() can hand out, and those of
\* the jobs and records the tracker holds.
KnownIds == Ids \cup MapKeys(activeGenerations) \cup MapKeys(completedGenerations)

Next ==
    \/ Budget /\ \E p \in Prompts : Start(p)
    \/ Budget /\ \E id \in Ids, ok \in BOOLEAN : TriggerSettled(id, ok)
    \/ Budget /\ \E id \in KnownIds : StatusBegin(id)
    \/ Budget /\ StatusInvalid
    \/ Budget /\ \E s \in Slots, ok \in BOOLEAN : PollDone(s, ok)
    \/ Budget /\ \E s \in Slots, ok \in BOOLEAN : VerifyDone(s, ok)
    \/ Budget /\ Cleanup
    \/ Budget /\ \E kind \in UIChanges : UIChange(kind)
    \/ Budget /\ \E d \in TickSteps : Tick(d)

Spec == Init /\ [][Next]_vars

\* A server that has been polled hard: job 1 was started a little over thirty
\* minutes ago and its trigger has ended, the window shows "Generating...",
\* job 2 has just been started and its status has been asked five times in
\* this very minute, each poll answering "still generating".
InitBusy ==
    /\ activeGenerations = <<[id |-> 1, started_at |-> ThirtyMinutes + WindowMs],
                             [id |-> 2, started_at |-> 0]>>
    /\ completedGenerations = <<>>
    /\ requests = [k \in Keys |->
                     CASE k = "start_image_generation" -> <<0>>
                       [] k = "image_generation" -> <<0>>
                       [] k = "ui_polling" -> <<0, 0, 0, 0, 0>>
                       [] OTHER -> <<>>]
    /\ trigger = [i \in Ids |-> IF i = 2 THEN "running" ELSE "none"]
    /\ calls = [s \in Slots |-> NoCall]
    /\ ui = [generating |-> TRUE, images |-> 0]
    /\ nextId = 3
    /\ steps = 0
    /\ lastStart = [result |-> "id", id |-> 2, prompt |-> "ok",
                    allowed |-> TRUE, activeBefore |-> 1, activeAfter |-> 2]
    /\ lastRet = [id |-> 2, status |-> "generating", timestamp |-> 0,
                  error |-> NoError, poll |-> "incomplete", expired |-> FALSE,
                  fresh |-> TRUE,
                  prev |-> [status |-> "generating", timestamp |-> 0,
                            error |-> NoError],
                  moved |-> FALSE, uiSame |-> TRUE]
    /\ returnedTerminal = {}
    /\ uiChanged = Ids \ {2}
    /\ granted = [k \in Keys |-> <<>>]
    /\ lastAllowed = [key |-> "none", result |-> FALSE, before |-> <<>>, refused |-> 0]
    /\ latestIssued = <<>>
    /\ lastLatest = [result |-> "none", earlier |-> 0, downloadPath |-> NoDownloadPath]
    /\ hist = NoHist
    /\ ask = IdleAsk
    /\ exec = IdleExec
    /\ tool = IdleTool
    /\ sec = IdleSec
    /\ disk = NoDisk
    /\ backoff = IdleBackoff

SpecBusy == InitBusy /\ [][Next]_vars

\* A server with nine jobs generating: five were started two minutes ago and
\* four one minute ago, every trigger has ended, no status has been asked.
Backlog == BatchLimit - 1
BacklogId(i) == 100 + i
InitBatch ==
    /\ activeGenerations =
         [i \in 1..Backlog |->
            [id |-> BacklogId(i),
             started_at |-> IF i <= MaxRequests THEN 2 * WindowMs ELSE WindowMs]]
    /\ completedGenerations = <<>>
    /\ requests = [k \in Keys |->
                     IF k \in {"start_image_generation", "image_generation"}
                     THEN [i \in 1..(Backlog - MaxRequests) |-> WindowMs]
                     ELSE <<>>]
    /\ trigger = [i \in Ids |-> "none"]
    /\ calls = [s \in Slots |-> NoCall]
    /\ ui = [generating |-> FALSE, images |-> 0]
    /\ nextId = 1
    /\ steps = MaxSteps - BatchSteps
    /\ lastStart = [result |-> "id", id |-> BacklogId(Backlog), prompt |-> "ok",
                    allowed |-> TRUE, activeBefore |-> Backlog - 1,
                    activeAfter |-> Backlog]
    /\ lastRet = NoRet
    /\ returnedTerminal = {}
    /\ uiChanged = {}
    /\ granted = [k \in Keys |-> <<>>]
    /\ lastAllowed = [key |-> "none", result |-> FALSE, before |-> <<>>, refused |-> 0]
    /\ latestIssued = <<>>
    /\ lastLatest = [result |-> "none", earlier |-> 0, downloadPath |-> NoDownloadPath]
    /\ hist = NoHist
    /\ ask = IdleAsk
    /\ exec = IdleExec
    /\ tool = IdleTool
    /\ sec = IdleSec
    /\ disk = NoDisk
    /\ backoff = IdleBackoff

SpecBatch == InitBatch /\ [][Next]_vars

\* ------------------------------------------------ a full completed map
\* The server after more than an hour of use at the limiter's pace: the
\* completed map holds MAX_COMPLETED records or two more, inserted one after
\* the other (Map keeps insertion order, a record's timestamp is the instant
\* it was inserted), cleanup() not yet run on them.  How the finishing
\* instants were spread is the profile: half a minute apart with the second
\* and third of one instant, or in pairs of one instant with the first
\* already past the hour.
FullSizes == {MAX_COMPLETED, MAX_COMPLETED + 2}
FullProfiles == {"apart", "pairs"}
FullId(i) == 200 + i
HalfMinute == WindowMs \div 2
FullAge(profile, n, i) ==
    IF profile = "apart"
    THEN IF i = 2 THEN (n - 3) * HalfMinute ELSE (n - i) * HalfMinute
    ELSE IF i = 1 THEN OneHour + HalfMinute
         ELSE ((n - i) \div 2) * WindowMs
FullRecord(profile, n, i) ==
    [(IF i % 2 = 0 THEN CompletedRecord(FullId(i))
      ELSE FailedRecord(FullId(i), TriggerError))
        EXCEPT !.timestamp = FullAge(profile, n, i)]
InitFull ==
    /\ \E n \in FullSizes, profile \in FullProfiles :
          completedGenerations = [i \in 1..n |-> FullRecord(profile, n, i)]
    /\ activeGenerations = <<>>
    /\ requests = [k \in Keys |-> <<>>]
    /\ trigger = [i \in Ids |-> "none"]
    /\ calls = [s \in Slots |-> NoCall]
    /\ ui = [generating |-> FALSE, images |-> 0]
    /\ nextId = 1
    /\ steps = MaxSteps - FullSteps
    /\ lastStart = [result |-> "none", id |-> 0, prompt |-> "none",
                    allowed |-> FALSE, activeBefore |-> 0, activeAfter |-> 0]
    /\ lastRet = NoRet
    /\ returnedTerminal = {}
    /\ uiChanged = {}
    /\ granted = [k \in Keys |-> <<>>]
    /\ lastAllowed = [key |-> "none", result |-> FALSE, before |-> <<>>, refused |-> 0]
    /\ latestIssued = <<>>
    /\ lastLatest = [result |-> "none", earlier |-> 0, downloadPath |-> NoDownloadPath]
    /\ hist = NoHist
    /\ ask = IdleAsk
    /\ exec = IdleExec
    /\ tool = IdleTool
    /\ sec = IdleSec
    /\ disk = NoDisk
    /\ backoff = IdleBackoff

\* The steps that fill and empty the completed map: jobs are started, their
\* triggers fail (a failed record is inserted), time passes, cleanup() runs.
NextFull ==
    \/ Budget /\ \E p \in Prompts : Start(p)
    \/ Budget /\ \E id \in Ids, ok \in BOOLEAN : TriggerSettled(id, ok)
    \/ Budget /\ Cleanup
    \/ Budget /\ \E d \in TickSteps : Tick(d)

SpecFull == InitFull /\ [][NextFull]_vars

\* ------------------------------------------------ ten active jobs
\* The server after ten starts at the limiter's pace, none of the jobs
\* finished: five starts two and a half minutes ago, then the rest, of which
\* the last four or five came half a minute ago.  Those are the instants the
\* limiter still holds under both keys.  The triggers of the last two jobs
\* (ids 1 and 2) have not settled; the window shows no indicator and the
\* image of an earlier conversation.
RecentStarts == {MaxRequests - 1, MaxRequests}
CapId(i) == IF i <= BatchLimit - 2 THEN BacklogId(i) ELSE i - (BatchLimit - 2)
CapAge(recent, i) ==
    IF i <= MaxRequests THEN 2 * WindowMs + HalfMinute
    ELSE IF i <= BatchLimit - recent THEN WindowMs + HalfMinute
    ELSE HalfMinute
InitCap ==
    /\ \E recent \in RecentStarts :
          /\ activeGenerations =
               [i \in 1..BatchLimit |->
                  [id |-> CapId(i), started_at |-> CapAge(recent, i)]]
          /\ requests = [k \in Keys |->
                           IF k \in {"start_image_generation", "image_generation"}
                           THEN [i \in 1..recent |-> HalfMinute]
                           ELSE <<>>]
    /\ completedGenerations = <<>>
    /\ trigger = [i \in Ids |-> IF i <= 2 THEN "running" ELSE "none"]
    /\ calls = [s \in Slots |-> NoCall]
    /\ ui = [generating |-> FALSE, images |-> 1]
    /\ nextId = 3
    /\ steps = MaxSteps - CapSteps
    /\ lastStart = [result |-> "id", id |-> 2, prompt |-> "ok",
                    allowed |-> TRUE, activeBefore |-> BatchLimit - 1,
                    activeAfter |-> BatchLimit]
    /\ lastRet = NoRet
    /\ returnedTerminal = {}
    /\ uiChanged = {}
    /\ granted = [k \in Keys |-> <<>>]
    /\ lastAllowed = [key |-> "none", result |-> FALSE, before |-> <<>>, refused |-> 0]
    /\ latestIssued = <<>>
    /\ lastLatest = [result |-> "none", earlier |-> 0, downloadPath |-> NoDownloadPath]
    /\ hist = NoHist
    /\ ask = IdleAsk
    /\ exec = IdleExec
    /\ tool = IdleTool
    /\ sec = IdleSec
    /\ disk = NoDisk
    /\ backoff = IdleBackoff

SpecCap == InitCap /\ [][Next]_vars

\* The limiter on its own: direct isAllowed calls and getLatestImage requests,
\* half a window or a whole window apart.
LimiterKeys == {"ui_polling", "get_latest_image"}
BudgetLimiter == steps < MaxLimiterSteps /\ steps' = steps + 1
NextLimiter ==
    \/ BudgetLimiter /\ \E key \in LimiterKeys : IsAllowedCall(key)
    \/ BudgetLimiter /\ \E downloadPath \in DownloadPaths : GetLatestImage(downloadPath)
    \/ BudgetLimiter /\ \E d \in LimiterTicks : Tick(d)
SpecLimiter == Init /\ [][NextLimiter]_vars

\* The server running without end, its clients asking for the status of
\* every job again and again.  The clock moves in steps of thirty minutes and
\* elapsed times stop growing at AgeCap, past every threshold of the code.
\* uuidv4() never repeats an id; here the name of a job that has left the
\* tracker, with no trigger and no status call of it pending, is given to the
\* next job, which is a job nothing in the server can tell from a new one.
Free(id) ==
    /\ ~MapHas(activeGenerations, id)
    /\ ~MapHas(completedGenerations, id)
    /\ trigger[id] = "none"
    /\ \A s \in Slots : calls[s] = NoCall \/ calls[s].id # id

StartRecycled ==
    \E id \in Ids : Free(id) /\ StartAs("ok", id) /\ UNCHANGED nextId

Idle == \A s \in Slots : calls[s] = NoCall
LiveTrigger(id) == TriggerSettled(id, TRUE) /\ UNCHANGED steps
LiveStatus(id) == Idle /\ StatusBegin(id) /\ UNCHANGED steps
LivePoll(s) == (\E ok \in BOOLEAN : PollDone(s, ok)) /\ UNCHANGED steps
LiveCleanup == Cleanup /\ UNCHANGED steps
LiveTick == Tick(ThirtyMinutes) /\ UNCHANGED steps

NextLive ==
    \/ StartRecycled /\ UNCHANGED steps
    \/ \E id \in Ids : LiveTrigger(id)
    \/ \E id \in Ids : LiveStatus(id)
    \/ \E s \in Slots : LivePoll(s)
    \/ LiveCleanup
    \/ LiveTick

\* Time passes, every automation call ends, the cleanup timer fires, and the
\* status of every job keeps being asked: a client that is able to ask again
\* and again does ask again and again.
Fairness ==
    /\ WF_vars(LiveTick)
    /\ WF_vars(LiveCleanup)
    /\ \A id \in Ids : WF_vars(LiveTrigger(id))
    /\ \A s \in Slots : WF_vars(LivePoll(s))
    /\ \A id \in Ids : SF_vars(LiveStatus(id))

SpecLive == Init /\ [][NextLive]_vars /\ Fairness

\* ------------------------------------------- askChatGPT, getConversations
\* CONFIG.retry.maxRetries
RetryMax == 3
MaxAskSteps == 9
\* One second, and what is then left of the limiter's window after another
AskTicks == {1000, WindowMs - 2000}

Ops == {"ask", "get_conversations"}
\* The limiter key the service checks, and the one its script generator checks
OuterKey(op) == IF op = "ask" THEN "ask_chatgpt" ELSE "get_conversations"
InnerKey(op) == IF op = "ask" THEN "text_generation" ELSE "conversation_list"
\* The code under which the service's catch block throws again
WrapCode(op) ==
    IF op = "ask" THEN "INTERACTION_ERROR" ELSE "CONVERSATION_RETRIEVAL_ERROR"

\* createError(message, code, retryable), and a plain `new Error(message)`
CreateError(msg, code, retryable) ==
    [code |-> code, retryable |-> IF retryable THEN "true" ELSE "false", msg |-> msg]
PlainError(msg) == [code |-> "undefined", retryable |-> "undefined", msg |-> msg]

RateLimitedMsg == "Rate limit exceeded"
AccessMsg == "ChatGPT application is not running or not accessible"

\* isRetryableError of utils/error-handling: an error is retried unless it was
\* created as not retryable.
IsRetryableError_Never(e) == FALSE
IsRetryableError(e) == e.retryable # "false"

\* withRetry's catch block for error e of the current attempt: give up on the
\* last attempt or on an error that is not retryable, throwing an error with
\* the code of e; else sleep before the next attempt.
WithRetryCatch(a, e) ==
    IF a.attempt = RetryMax \/ ~IsRetryableError(e)
    THEN [a EXCEPT !.pc = "done", !.err = e,
                   !.result = [ok |-> FALSE,
                               code |-> IF e.code = "undefined"
                                        THEN "UNKNOWN_ERROR" ELSE e.code,
                               msg |-> e.msg]]
    ELSE [a EXCEPT !.pc = "sleep", !.err = e]

\* The operation body from its entry to its first await or throw: the prompt
\* checks (askChatGPT only) and the service's own limiter check.
Body(a0, R) ==
    LET a == [a0 EXCEPT !.bodies = @ + 1, !.again = @ \/ a0.limited]
    IN  IF a.op = "ask" /\ Blank(a.prompt)
        THEN [ask |-> WithRetryCatch(a, CreateError("Invalid prompt provided",
                                                     "INVALID_INPUT", FALSE)),
              requests |-> R]
        ELSE IF a.op = "ask" /\ PromptLength(a.prompt) > MaxPromptLength
        THEN [ask |-> WithRetryCatch(a, CreateError("Prompt too long",
                                                     "PROMPT_TOO_LONG", FALSE)),
              requests |-> R]
        ELSE IF ~Allowed(R, OuterKey(a.op))
        THEN [ask |-> WithRetryCatch([a EXCEPT !.limited = TRUE],
                                     CreateError(RateLimitedMsg, "RATE_LIMITED", FALSE)),
              requests |-> R]
        ELSE [ask |-> [a EXCEPT !.pc = "access",
                                !.slotsAfter = IF a.limited THEN @ + 1 ELSE @],
              requests |-> Record(R, OuterKey(a.op))]

\* The catch block of the service's try: whatever was thrown is thrown again
\* as a retryable error of the service's code; askChatGPT restores the
\* clipboard first (finally).
Caught(a, e) ==
    LET wrapped == CreateError(e.msg, WrapCode(a.op), TRUE)
    IN  IF a.op = "ask"
        THEN [a EXCEPT !.pc = "restore", !.pending = wrapped]
        ELSE WithRetryCatch(a, wrapped)

\* generateTextScript / generateConversationScript, called inside the try:
\* the generator's own limiter check, then the script is handed to
\* executeAppleScript.
Generator(a, R) ==
    IF ~Allowed(R, InnerKey(a.op))
    THEN [ask |-> Caught([a EXCEPT !.limited = TRUE], PlainError(RateLimitedMsg)),
          requests |-> R]
    ELSE [ask |-> [a EXCEPT !.pc = "script",
                            !.slotsAfter = IF a.limited THEN @ + 1 ELSE @],
          requests |-> Record(R, InnerKey(a.op))]

askFrame == <<trackerVars, trigger, calls, ui, nextId, lastStart, lastRet,
              returnedTerminal, uiChanged, granted, lastAllowed, latestIssued,
              lastLatest, hist, exec, tool, utilVars>>

\* askChatGPT(prompt) or getConversations() is called: withRetry enters the
\* body for the first attempt.
ServiceCall(op, p) ==
    /\ ask.pc \in {"idle", "done"}
    /\ op = "get_conversations" => p = "none"
    /\ LET b == Body([IdleAsk EXCEPT !.op = op, !.prompt = p], requests)
       IN  ask' = b.ask /\ requests' = b.requests
    /\ UNCHANGED askFrame

\* checkChatGPTAccess ends.  It throws a plain Error outside the try block.
AccessDone(ok) ==
    /\ ask.pc = "access"
    /\ IF ~ok
       THEN ask' = WithRetryCatch(ask, PlainError(AccessMsg)) /\ UNCHANGED requests
       ELSE IF ask.op = "ask"
       THEN ask' = [ask EXCEPT !.pc = "clipboard"] /\ UNCHANGED requests
       ELSE LET b == Generator(ask, requests)
            IN  ask' = b.ask /\ requests' = b.requests
    /\ UNCHANGED askFrame

\* clipboard.saveClipboard ends (it never throws)
ClipboardDone ==
    /\ ask.pc = "clipboard"
    /\ LET b == Generator(ask, requests)
       IN  ask' = b.ask /\ requests' = b.requests
    /\ UNCHANGED askFrame

ScriptOutcomes == {"ok", "failed", "empty"}
\* executeAppleScript ends
ScriptDone(outcome) ==
    /\ ask.pc = "script"
    /\ ask' =
         IF ask.op = "ask"
         THEN CASE outcome = "ok" -> [ask EXCEPT !.pc = "restore", !.pending = NoErr]
                [] outcome = "failed" ->
                     Caught(ask, CreateError("ChatGPT interaction failed",
                                             "INTERACTION_FAILED", TRUE))
                [] OTHER ->
                     Caught(ask, CreateError("Received empty response from ChatGPT",
                                             "EMPTY_RESPONSE", TRUE))
         ELSE IF outcome = "failed"
              THEN Caught(ask, CreateError("Unknown error", "RETRIEVAL_ERROR", TRUE))
              ELSE [ask EXCEPT !.pc = "done",
                               !.result = [ok |-> TRUE, code |-> "none", msg |-> "none"]]
    /\ UNCHANGED requests
    /\ UNCHANGED askFrame

\* clipboard.restoreClipboard ends: the try block's result is returned or
\* its error reaches withRetry
RestoreDone ==
    /\ ask.pc = "restore"
    /\ ask' = IF ask.pending = NoErr
              THEN [ask EXCEPT !.pc = "done",
                               !.result = [ok |-> TRUE, code |-> "none", msg |-> "none"]]
              ELSE WithRetryCatch([ask EXCEPT !.pending = NoErr], ask.pending)
    /\ UNCHANGED requests
    /\ UNCHANGED askFrame

\* withRetry's sleep ends: the next attempt enters the body
SleepDone ==
    /\ ask.pc = "sleep"
    /\ LET b == Body([ask EXCEPT !.attempt = @ + 1], requests)
       IN  ask' = b.ask /\ requests' = b.requests
    /\ UNCHANGED askFrame

BudgetAsk == steps < MaxAskSteps /\ steps' = steps + 1
\* The client waits most of a minute only between its calls; inside a call
\* the clock moves by seconds.
NextAsk ==
    \/ BudgetAsk /\ \E p \in {"ok", "blank", "too_long"} : ServiceCall("ask", p)
    \/ BudgetAsk /\ ServiceCall("get_conversations", "none")
    \/ BudgetAsk /\ \E ok \in BOOLEAN : AccessDone(ok)
    \/ BudgetAsk /\ ClipboardDone
    \/ BudgetAsk /\ \E o \in ScriptOutcomes : ScriptDone(o)
    \/ BudgetAsk /\ RestoreDone
    \/ BudgetAsk /\ SleepDone
    \/ BudgetAsk /\ \E d \in AskTicks :
                      /\ ask.pc \in {"access", "done"}
                      /\ d > 1000 => ask.pc = "done"
                      /\ Tick(d)
\* A server that has just answered five ask requests and five
\* get_conversations requests: the access check of the first ask took a
\* second, then that of the first get_conversations took a second, and
\* everything else went through within the second after that.
InitAsk ==
    /\ activeGenerations = <<>>
    /\ completedGenerations = <<>>
    /\ requests = [k \in Keys |->
                     CASE k = "ask_chatgpt" -> <<2000, 0, 0, 0, 0>>
                       [] k \in {"text_generation", "get_conversations"} ->
                              <<1000, 0, 0, 0, 0>>
                       [] k = "conversation_list" -> <<0, 0, 0, 0, 0>>
                       [] OTHER -> <<>>]
    /\ trigger = [i \in Ids |-> "none"]
    /\ calls = [s \in Slots |-> NoCall]
    /\ ui = [generating |-> FALSE, images |-> 0]
    /\ nextId = 1
    /\ steps = 0
    /\ lastStart = [result |-> "none", id |-> 0, prompt |-> "none",
                    allowed |-> FALSE, activeBefore |-> 0, activeAfter |-> 0]
    /\ lastRet = NoRet
    /\ returnedTerminal = {}
    /\ uiChanged = {}
    /\ granted = [k \in Keys |-> <<>>]
    /\ lastAllowed = [key |-> "none", result |-> FALSE, before |-> <<>>, refused |-> 0]
    /\ latestIssued = <<>>
    /\ lastLatest = [result |-> "none", earlier |-> 0, downloadPath |-> NoDownloadPath]
    /\ hist = NoHist
    /\ ask = [IdleAsk EXCEPT !.pc = "done", !.op = "get_conversations",
                             !.bodies = 1,
                             !.result = [ok |-> TRUE, code |-> "none", msg |-> "none"]]
    /\ exec = IdleExec
    /\ tool = IdleTool
    /\ sec = IdleSec
    /\ disk = NoDisk
    /\ backoff = IdleBackoff
SpecAsk == InitAsk /\ [][NextAsk]_vars

\* ---------------------------------------------------------- runAppleScript
\* retries: number = 3
DefaultRetries == 3
MaxRetriesArg == 4
RetriesArgs == 0..MaxRetriesArg

\* What an error message of the external call can say, and whether it says
\* it in capitals.
Texts == {"application is not running", "ChatGPT is not running",
          "connection timed out", "busy", "temporary", "network", "timeout",
          "syntax error"}
Messages == [text : Texts, upper : BOOLEAN]

\* errorMessage.toLowerCase()
toLowerCase(m) == [m EXCEPT !.upper = FALSE]
\* lowerError.includes(pattern): the patterns are in lower case, and none of
\* the texts above contains a pattern other than itself
includes(m, pattern) == ~m.upper /\ m.text = pattern

retryableErrors == {"application is not running", "connection timed out",
                    "busy", "temporary", "network", "timeout"}
isRetryableError_CaseSensitive(errorMessage) ==
    \E pattern \in retryableErrors : includes(errorMessage, pattern)
isRetryableError(errorMessage) ==
    \E pattern \in retryableErrors : includes(toLowerCase(errorMessage), pattern)

\* attempt < retries
AttemptsRemain(attempt, retries) == attempt < retries
\* for (...; attempt <= retries; ...)
LoopContinues_OneMore(attempt, retries) == attempt <= retries + 1
LoopContinues(attempt, retries) == attempt <= retries

MaxRetriesExceeded == [text |-> "Max retries exceeded", upper |-> FALSE]

execFrame == <<trackerVars, requests, trigger, calls, ui, nextId, steps, lastStart,
               lastRet, returnedTerminal, uiChanged, granted, lastAllowed,
               latestIssued, lastLatest, hist, ask, tool, utilVars>>

\* runAppleScript(script, retries) is called: the loop is entered and, when
\* 1 <= retries, the first external call issued.
runAppleScript(retries) ==
    /\ exec.pc \in {"idle", "done"}
    /\ exec' = IF LoopContinues(1, retries)
               THEN [IdleExec EXCEPT !.pc = "call", !.retries = retries,
                                     !.attempt = 1, !.calls = 1]
               ELSE [IdleExec EXCEPT !.pc = "done", !.retries = retries,
                                     !.attempt = 1, !.error = MaxRetriesExceeded]
    /\ UNCHANGED execFrame

\* The external call succeeds
CallSucceeds ==
    /\ exec.pc = "call"
    /\ exec' = [exec EXCEPT !.pc = "done", !.success = TRUE,
                            !.successAt = exec.calls]
    /\ UNCHANGED execFrame

\* The external call throws an error with the message m
CallFails(m) ==
    /\ exec.pc = "call"
    /\ LET retry == AttemptsRemain(exec.attempt, exec.retries) /\ isRetryableError(m)
           fail == [msg |-> m, attempt |-> exec.attempt, retried |-> retry,
                    retries |-> exec.retries]
       IN  exec' = IF retry
                   THEN [exec EXCEPT !.pc = "sleep", !.lastFail = fail]
                   ELSE [exec EXCEPT !.pc = "done", !.error = m, !.lastFail = fail]
    /\ UNCHANGED execFrame

\* The backoff delay is over: the next attempt issues its external call
BackoffDone ==
    /\ exec.pc = "sleep"
    /\ exec' = IF LoopContinues(exec.attempt + 1, exec.retries)
               THEN [exec EXCEPT !.pc = "call", !.attempt = @ + 1, !.calls = @ + 1]
               ELSE [exec EXCEPT !.pc = "done", !.attempt = @ + 1,
                                 !.error = MaxRetriesExceeded]
    /\ UNCHANGED execFrame

NextExec ==
    \/ \E retries \in RetriesArgs : runAppleScript(retries)
    \/ CallSucceeds
    \/ \E m \in Messages : CallFails(m)
    \/ BackoffDone
\* Every external call returns and every delay ends
FairExec ==
    /\ WF_vars(CallSucceeds \/ \E m \in Messages : CallFails(m))
    /\ WF_vars(BackoffDone)
SpecExec == Init /\ [][NextExec]_vars /\ FairExec

\* ------------------------------------------------------- the dispatcher
\* JavaScript values by kind: undefined, a non-empty string, "", a number
\* other than 0, 0, true, false
Values == {"undefined", "string", "empty", "number", "zero", "true", "false"}
Truthy(v) == v \in {"string", "number", "true"}
typeof(v) ==
    CASE v \in {"string", "empty"} -> "string"
      [] v \in {"number", "zero"} -> "number"
      [] v \in {"true", "false"} -> "boolean"
      [] OTHER -> "undefined"

KnownOperations == {"ask", "get_conversations", "generate_image",
                    "start_image_generation", "check_generation_status",
                    "get_latest_image"}
\* args.operation: a known name, another string, nothing, or a number
Operations == KnownOperations \cup {"delete_all", "undefined", "number"}
NeedsPrompt == {"ask", "generate_image", "start_image_generation"}

\* The argument objects tried
ArgObjects ==
    [operation : Operations, prompt : Values, generation_id : Values,
     conversation_id : {"undefined", "string", "number", "zero"},
     download_image : {"undefined", "true", "false", "string", "zero"},
     max_retries : {"undefined", "number", "string", "empty"}]
\* field && typeof field !== type
WrongType(v, type) == Truthy(v) /\ typeof(v) # type

isChatGPTArgs(args) ==
    /\ args # NoArgs
    /\ args.operation \in KnownOperations
    /\ args.operation \in NeedsPrompt => Truthy(args.prompt)
    /\ args.operation = "check_generation_status" => Truthy(args.generation_id)
    /\ ~WrongType(args.prompt, "string")
    /\ ~WrongType(args.conversation_id, "string")
    /\ ~WrongType(args.max_retries, "number")
    /\ ~WrongType(args.download_image, "boolean")
    /\ ~WrongType(args.generation_id, "string")

\* The two entry points of the repository: core/server.ts with
\* handlers/tool-handlers.ts, and index.js
Servers == {"server.ts", "index.js"}

\* createErrorResponse(error) of tool-handlers, and the catch block of index.js
createErrorResponse(text) == Envelope(text, "true")
IndexJsCatch(text) == Envelope(text, "absent")

toolFrame == <<trackerVars, requests, trigger, calls, ui, nextId, steps, lastStart,
               lastRet, returnedTerminal, uiChanged, granted, lastAllowed,
               latestIssued, lastLatest, hist, ask, exec, utilVars>>

Done(t, response, failed) ==
    [t EXCEPT !.pc = "done", !.response = response, !.failed = failed]

\* The CallToolRequest handler of core/server.ts calling handleChatGPTTool,
\* up to the await of the operation handler's service call
ServerTsCall(t, sched) ==
    IF t.args = NoArgs
    THEN Done(t, createErrorResponse("No arguments provided"), TRUE)
    ELSE IF t.name # "chatgpt"
    THEN Done(t, Envelope("Unknown tool", "true"), TRUE)
    ELSE IF ~isChatGPTArgs(t.args)
    THEN Done(t, createErrorResponse("Invalid arguments"), TRUE)
    ELSE IF (t.args.operation \in NeedsPrompt /\ ~Truthy(t.args.prompt))
            \/ (t.args.operation = "check_generation_status"
                  /\ ~Truthy(t.args.generation_id))
    THEN Done([t EXCEPT !.handler = t.args.operation, !.cleanup = sched],
              createErrorResponse("Argument is required"), TRUE)
    ELSE [t EXCEPT !.pc = "handler", !.handler = t.args.operation,
                   !.cleanup = sched]

\* The tool callback of index.js, which the SDK calls for the tool 'chatgpt'
\* with the arguments of the request
IndexJsCall(t) ==
    IF t.args.operation \notin KnownOperations
    THEN Done(t, IndexJsCatch("Unknown operation"), TRUE)
    ELSE IF (t.args.operation \in NeedsPrompt /\ ~Truthy(t.args.prompt))
            \/ (t.args.operation = "check_generation_status"
                  /\ ~Truthy(t.args.generation_id))
    THEN Done([t EXCEPT !.handler = t.args.operation],
              IndexJsCatch("Argument is required"), TRUE)
    ELSE [t EXCEPT !.pc = "handler", !.handler = t.args.operation]

\* A tools/call request arrives
ToolCall(server, name, args, sched) ==
    /\ tool.pc = "idle"
    /\ server = "index.js" => (name = "chatgpt" /\ args # NoArgs /\ ~sched)
    /\ LET t == [IdleTool EXCEPT !.server = server, !.name = name, !.args = args]
       IN  tool' = IF server = "server.ts" THEN ServerTsCall(t, sched)
                   ELSE IndexJsCall(t)
    /\ UNCHANGED toolFrame

\* The service call of the operation handler ends: it returns, or it throws
HandlerDone(ok) ==
    /\ tool.pc = "handler"
    /\ tool' =
         IF tool.server = "server.ts"
         THEN IF ok THEN Done(tool, Envelope("result", "false"), FALSE)
              ELSE Done(tool, createErrorResponse("error"), TRUE)
         ELSE IF ok THEN Done(tool, Envelope("result", "absent"), FALSE)
              ELSE Done(tool, IndexJsCatch("error"), TRUE)
    /\ UNCHANGED toolFrame

\* The envelope is handed to the transport; the server waits for the next
\* request
ResponseSent ==
    /\ tool.pc = "done"
    /\ tool' = IdleTool
    /\ UNCHANGED toolFrame

NextTool ==
    \/ /\ tool.pc = "idle"
       /\ \E server \in Servers, name \in {"chatgpt", "other"},
             args \in ArgObjects \cup {NoArgs}, sched \in BOOLEAN :
                ToolCall(server, name, args, sched)
    \/ \E ok \in BOOLEAN : HandlerDone(ok)
    \/ ResponseSent
SpecTool == Init /\ [][NextTool]_vars

\* ------------------------------------------------------ validateSavePath
\* A string is a sequence of atoms: single characters, and the runs of
\* characters "png", "PNG", "jpeg", "txt" (an extension's letters), "long" (256
\* letters), "x5000" (5000 letters) and "NUL" (one null byte).  A path is written by its segments.
MaxSegments == 3
Up == <<".", ".">>
Here == <<".">>
Segments ==
    { Up, Here, <<"NUL", ".", ".">>,
      <<"s">>, <<"d">>, <<"d", "2">>, <<"e">>,
      <<"i", ".", "png">>, <<"i", ".", "PNG">>, <<"i", ".", "txt">>, <<"i">>,
      <<".", "h", ".", "png">>, <<"long", ".", "png">>, <<"i", ".">> }
SegmentLists == UNION { [1..n -> Segments] : n \in 0..MaxSegments }
\* The candidate paths tried; absolute: the string starts with "/".  The
\* string with no segment that is not absolute is the empty string.
Candidates == [string : {TRUE}, absolute : BOOLEAN, segments : SegmentLists]
NotAString == [string |-> FALSE, absolute |-> FALSE, segments |-> <<>>]
\* The designated directory /s/d, and the working directories of the process
AllowedBaseDir == [string |-> TRUE, absolute |-> TRUE, segments |-> <<<<"s">>, <<"d">>>>]
WorkingDirs == { <<<<"e">>>>, <<<<"s">>, <<"d">>>>, <<>> }

AtomLength(a) ==
    CASE a = "long" -> 256
      [] a = "x5000" -> 5000
      [] a \in {"png", "PNG", "txt"} -> 3
      [] a = "jpeg" -> 4
      [] OTHER -> 1
RECURSIVE Length(_)
Length(str) == IF str = <<>> THEN 0 ELSE AtomLength(Head(str)) + Length(Tail(str))

\* customPath.replace(/\0/g, '')
RECURSIVE StripNul(_)
StripNul(str) ==
    IF str = <<>> THEN <<>>
    ELSE IF Head(str) = "NUL" THEN StripNul(Tail(str))
    ELSE <<Head(str)>> \o StripNul(Tail(str))
CleanPath(segs) == [i \in 1..Len(segs) |-> StripNul(segs[i])]

\* path.resolve: '.' and empty segments are dropped, '..' removes the segment
\* before it (none at the root); done holds the segments resolved so far
RECURSIVE Normalize(_, _)
Normalize(done, segs) ==
    IF segs = <<>> THEN done
    ELSE LET seg == Head(segs)
         IN  IF seg = <<>> \/ seg = Here THEN Normalize(done, Tail(segs))
             ELSE IF seg = Up
             THEN Normalize(IF done = <<>> THEN <<>>
                            ELSE SubSeq(done, 1, Len(done) - 1), Tail(segs))
             ELSE Normalize(Append(done, seg), Tail(segs))
resolve(absolute, segs, cwd) == Normalize(<<>>, IF absolute THEN segs ELSE cwd \o segs)

\* The resolved path as a string: "/" alone for the root, no trailing "/"
RECURSIVE Joined(_)
Joined(segs) == IF segs = <<>> THEN <<>> ELSE <<"/">> \o Head(segs) \o Joined(Tail(segs))
PathString(segs) == IF segs = <<>> THEN <<"/">> ELSE Joined(segs)

startsWith(str, prefix) ==
    /\ Len(prefix) <= Len(str)
    /\ SubSeq(str, 1, Len(prefix)) = prefix

\* path.basename of a resolved path, path.extname of a file name
basename(segs) == IF segs = <<>> THEN <<>> ELSE segs[Len(segs)]
LastDot(name) == IF \E i \in 1..Len(name) : name[i] = "."
                 THEN CHOOSE i \in 1..Len(name) :
                        /\ name[i] = "."
                        /\ \A j \in (i + 1)..Len(name) : name[j] # "."
                 ELSE 0
extname(name) == IF LastDot(name) <= 1 THEN <<>>
                 ELSE SubSeq(name, LastDot(name), Len(name))
extToLowerCase(ext) == [i \in 1..Len(ext) |-> IF ext[i] = "PNG" THEN "png" ELSE ext[i]]
allowedExtensions == { <<".", "png">>, <<".", "j", "p", "g">>, <<".", "jpeg">>,
                       <<".", "g", "i", "f">>, <<".", "w", "e", "b", "p">> }

Thrown(error) == [ok |-> FALSE, error |-> error, value |-> <<>>]
Returned(value) == [ok |-> TRUE, error |-> "none", value |-> value]

Within_NoSeparator(resolvedPath, allowedPath) ==
    startsWith(resolvedPath, allowedPath)
Within(resolvedPath, allowedPath) ==
    startsWith(resolvedPath, allowedPath \o <<"/">>) \/ resolvedPath = allowedPath

validateSavePath(customPath, allowedBaseDir, cwd) ==
    IF ~customPath.string \/ (~customPath.absolute /\ customPath.segments = <<>>)
    THEN Thrown("Invalid file path provided")
    ELSE IF ~allowedBaseDir.string
            \/ (~allowedBaseDir.absolute /\ allowedBaseDir.segments = <<>>)
    THEN Thrown("Invalid base directory provided")
    ELSE LET resolved == resolve(customPath.absolute, CleanPath(customPath.segments), cwd)
             allowed == resolve(allowedBaseDir.absolute, allowedBaseDir.segments, cwd)
             fileName == basename(resolved)
             ext == extToLowerCase(extname(fileName))
         IN  IF ~Within(PathString(resolved), PathString(allowed))
             THEN Thrown("Path traversal detected")
             ELSE IF fileName = <<>> \/ fileName[1] = "." \/ Length(fileName) > 255
             THEN Thrown("Invalid filename")
             ELSE IF ext # <<>> /\ ext \notin allowedExtensions
             THEN Thrown("Invalid file extension")
             ELSE Returned(PathString(resolved))

secFrame == <<trackerVars, requests, trigger, calls, ui, nextId, steps, lastStart,
              lastRet, returnedTerminal, uiChanged, granted, lastAllowed,
              latestIssued, lastLatest, hist, ask, exec, tool, disk, backoff>>

\* validateSavePath(customPath, allowedBaseDir) is called in a process whose
\* working directory is cwd
ValidateSavePathCall(customPath, cwd) ==
    /\ sec.pc = "idle"
    /\ sec' = [pc |-> "done", op |-> "validateSavePath", customPath |-> customPath,
               cwd |-> cwd,
               resolved |-> resolve(customPath.absolute,
                                    CleanPath(customPath.segments), cwd),
               result |-> validateSavePath(customPath, AllowedBaseDir, cwd)]
    /\ UNCHANGED secFrame

\* ------------------------------------------------ sanitizeForAppleScript
\* The inputs tried: strings of up to MaxChars atoms out of a letter, a blank,
\* the characters the function escapes (LF, CR, TAB stand for \n, \r, \t),
\* the control characters NUL and SOH and a run of 5000 letters; and the
\* values null, undefined, 123, {} and [].
MaxChars == 2
Chars == {"a", " ", "\"", "\\", "'", "LF", "CR", "TAB", "NUL", "SOH", "x5000"}
Strings == UNION { [1..n -> Chars] : n \in 0..MaxChars }
Inputs == [string : {TRUE}, kind : {"string"}, chars : Strings]
            \cup [string : {FALSE}, kind : {"null", "undefined", "number", "object", "array"},
                  chars : {<<>>}]
\* !input
Falsy(input) == input.kind \in {"null", "undefined"} \/ (input.string /\ input.chars = <<>>)

\* str.replace(/c/g, to) for one character c
RECURSIVE Replace(_, _, _)
Replace(str, c, to) ==
    IF str = <<>> THEN <<>>
    ELSE (IF Head(str) = c THEN to ELSE <<Head(str)>>) \o Replace(Tail(str), c, to)
\* str.replace(/[\x00-\x1F\x7F]/g, '')
ControlChars == {"LF", "CR", "TAB", "NUL", "SOH"}
RECURSIVE RemoveControl(_)
RemoveControl(str) ==
    IF str = <<>> THEN <<>>
    ELSE (IF Head(str) \in ControlChars THEN <<>> ELSE <<Head(str)>>)
           \o RemoveControl(Tail(str))

sanitizeForAppleScript(input) ==
    IF Falsy(input) \/ ~input.string
    THEN Thrown("Invalid input for AppleScript sanitization")
    ELSE Returned(
           RemoveControl(
             Replace(
               Replace(
                 Replace(
                   Replace(
                     Replace(
                       Replace(
                         Replace(input.chars, "\\", <<"\\", "\\">>),
                         "\"", <<"\\", "\"">>),
                       "'", <<"\\", "'">>),
                     "LF", <<"\\", "n">>),
                   "CR", <<"\\", "r">>),
                 "TAB", <<"\\", "t">>),
               "NUL", <<>>)))

SanitizeCall(input) ==
    /\ sec.pc = "idle"
    /\ sec' = [pc |-> "done", op |-> "sanitizeForAppleScript", input |-> input,
               result |-> sanitizeForAppleScript(input)]
    /\ UNCHANGED secFrame

\* The caller has taken the result
SecReturn ==
    /\ sec.pc = "done"
    /\ sec' = IdleSec
    /\ UNCHANGED secFrame

NextSec ==
    \/ /\ sec.pc = "idle"
       /\ \E customPath \in Candidates \cup {NotAString}, cwd \in WorkingDirs :
             ValidateSavePathCall(customPath, cwd)
    \/ /\ sec.pc = "idle"
       /\ \E input \in Inputs : SanitizeCall(input)
    \/ SecReturn
SpecSec == Init /\ [][NextSec]_vars

\* ------------------------------------------- downloadImageFromChatGPT
\* Files are records [dir, name, regular, age, size]: the directory and the
\* name as in validateSavePath, whether it is a regular file, the hours since
\* its modification and its size in bytes.
MaxDiskSteps == 5
MB == 1024 * 1024
MaxFileSizeMB == 50
DirD == AllowedBaseDir.segments
DirD2 == <<<<"s">>, <<"d", "2">>>>
DirE == <<<<"e">>>>
\* The working directory of the server process
Cwd == DirD
DefaultName == <<"c", ".", "png">>
File(dir, name, regular, age, size) ==
    [dir |-> dir, name |-> name, regular |-> regular, age |-> age, size |-> size]
\* What the directories hold when the server starts: in /s/d two files of
\* sixty megabytes, thirty hours and one hour old, a hidden file and the
\* subdirectory t; one old file in /s/d2 and one in /e
InitialFiles ==
    { File(DirD, <<"a", ".", "png">>, TRUE, 30, 60 * MB),
      File(DirD, <<"b", ".", "png">>, TRUE, 1, 60 * MB),
      File(DirD, <<".", "h">>, TRUE, 30, MB),
      File(DirD, <<"t">>, FALSE, 30, MB),
      File(DirD2, <<"a", ".", "png">>, TRUE, 30, 60 * MB),
      File(DirE, <<"a", ".", "png">>, TRUE, 30, 60 * MB) }
\* The sizes of the file the save dialog writes
SavedSizes == {0, 1, MaxFileSizeMB * MB, MaxFileSizeMB * MB + 1}
Versions == {"file-system.ts", "file-system.js"}

At(files, target) == {f \in files : f.dir = target.dir /\ f.name = target.name}

\* validateSavePath(userPath) of file-system.js
HasDotDot(name) == \E i \in 1..(Len(name) - 1) : name[i] = "." /\ name[i + 1] = "."
validateSavePathJs(userPath, cwd) ==
    IF ~userPath.string \/ (~userPath.absolute /\ userPath.segments = <<>>)
    THEN Returned(PathString(Append(DirD, <<"default", ".", "png">>)))
    ELSE LET resolved == resolve(userPath.absolute, userPath.segments, cwd)
             fileName == basename(resolved)
             ext == extToLowerCase(extname(fileName))
         IN  IF ~startsWith(PathString(resolved), PathString(DirD))
             THEN Thrown("Security violation: outside allowed directory")
             ELSE IF HasDotDot(fileName) \/ "~" \in {fileName[i] : i \in 1..Len(fileName)}
                     \/ (fileName # <<>> /\ fileName[1] = ".")
             THEN Thrown("Security violation: Invalid filename")
             ELSE IF ext # <<>> /\ ext \notin allowedExtensions
             THEN Thrown("Security violation: File extension not allowed")
             ELSE Returned(PathString(resolved))

\* The file a resolved path names
TargetOf(resolved) ==
    IF resolved = <<>> THEN NoTarget
    ELSE [dir |-> SubSeq(resolved, 1, Len(resolved) - 1), name |-> resolved[Len(resolved)]]
DefaultTarget == [dir |-> DirD, name |-> DefaultName]

diskFrame == <<trackerVars, trigger, calls, ui, nextId, lastStart,
               lastRet, returnedTerminal, uiChanged, lastAllowed,
               latestIssued, lastLatest, hist, ask, exec, tool, sec, backoff>>

Failed(op, error) == [op EXCEPT !.success = FALSE, !.error = error]

\* downloadImageFromChatGPT(savePath) up to the await of runAppleScript(script);
\* dirOk: validateDirectory(targetDir) passes
DownloadTs(savePath, cwd, dirOk) ==
    LET op == [NoOp EXCEPT !.name = "download", !.version = "file-system.ts"]
        v == validateSavePath(savePath, AllowedBaseDir, cwd)
        resolved == resolve(savePath.absolute, CleanPath(savePath.segments), cwd)
    IN  IF ~Allowed(requests, "image_download")
        THEN [disk EXCEPT !.op = Failed(op, "Rate limit exceeded")]
        ELSE IF savePath # NoDownloadPath /\ ~v.ok
        THEN [disk EXCEPT !.op = Failed(op, v.error)]
        ELSE IF ~dirOk
        THEN [disk EXCEPT !.op = Failed(op, "Directory does not exist")]
        ELSE [disk EXCEPT !.pc = "script",
                          !.op = [op EXCEPT !.target =
                                    IF savePath # NoDownloadPath
                                    THEN TargetOf(resolved) ELSE DefaultTarget]]
DownloadJs(savePath, cwd) ==
    LET op == [NoOp EXCEPT !.name = "download", !.version = "file-system.js"]
        v == validateSavePathJs(savePath, cwd)
    IN  IF savePath # NoDownloadPath /\ ~v.ok
        THEN [disk EXCEPT !.op = Failed(op, v.error)]
        ELSE [disk EXCEPT !.pc = "script",
                          !.op = [op EXCEPT !.target =
                                    IF savePath # NoDownloadPath
                                    THEN TargetOf(resolve(savePath.absolute,
                                                          savePath.segments, cwd))
                                    ELSE DefaultTarget]]
DownloadBegin(version, savePath, cwd, dirOk) ==
    /\ disk.pc = "idle"
    /\ version = "file-system.js" => dirOk
    /\ disk' = IF version = "file-system.ts" THEN DownloadTs(savePath, cwd, dirOk)
               ELSE DownloadJs(savePath, cwd)
    /\ requests' = IF version = "file-system.ts"
                   THEN Record(requests, "image_download") ELSE requests
    /\ granted' = IF version = "file-system.ts" /\ Allowed(requests, "image_download")
                  THEN [granted EXCEPT !["image_download"] = Append(@, 0)]
                  ELSE granted
    /\ UNCHANGED diskFrame

\* The file the dialog has written, when it has written one
Written(target, size) ==
    [dir |-> target.dir, name |-> target.name, regular |-> TRUE, age |-> 0,
     size |-> size]
AfterScript(files, target, written) ==
    IF written = -1 THEN files
    ELSE (files \ At(files, target)) \cup {Written(target, written)}

\* The check of the saved file in file-system.ts: fs.access, fs.stat, the
\* two size tests with their fs.unlink
VerifyTs(d, files) ==
    LET found == At(files, d.op.target)
        f == CHOOSE x \in found : TRUE
    IN  IF found = {}
        THEN [d EXCEPT !.pc = "idle", !.files = files,
                       !.op = Failed(d.op, "File verification failed")]
        ELSE IF f.size = 0
        THEN [d EXCEPT !.pc = "idle", !.files = files \ found,
                       !.op = [Failed(d.op, "Downloaded file is empty")
                                 EXCEPT !.deleted = found]]
        ELSE IF f.size > MaxFileSizeMB * MB
        THEN [d EXCEPT !.pc = "idle", !.files = files \ found,
                       !.op = [Failed(d.op, "Downloaded file exceeds size limit")
                                 EXCEPT !.deleted = found]]
        ELSE [d EXCEPT !.pc = "idle", !.files = files, !.op.success = TRUE]
\* The check in file-system.js: fs.access, then validateFileSize(safePath)
VerifyJs(d, files) ==
    LET found == At(files, d.op.target)
        f == CHOOSE x \in found : TRUE
    IN  IF found = {}
        THEN [d EXCEPT !.pc = "idle", !.files = files,
                       !.op = Failed(d.op, "File validation failed")]
        ELSE IF f.size > MaxFileSizeMB * MB
        THEN [d EXCEPT !.pc = "idle", !.files = files,
                       !.op = Failed(d.op, "File validation failed: File too large")]
        ELSE [d EXCEPT !.pc = "idle", !.files = files, !.op.success = TRUE]

\* runAppleScript(script) returns: the script reports the image saved or
\* something else; written is the size of the file the dialog has written, -1
\* when it has written none
ScriptReturns(saved, written) ==
    /\ disk.pc = "script"
    /\ ~saved => written = -1
    /\ LET files == AfterScript(disk.files, disk.op.target, written)
           d == [disk EXCEPT !.op.saved = saved]
       IN  disk' =
             IF ~saved
             THEN [d EXCEPT !.pc = "idle", !.op = Failed(d.op, "Unknown error")]
             ELSE IF d.op.version = "file-system.ts" THEN VerifyTs(d, files)
             ELSE VerifyJs(d, files)
    /\ UNCHANGED <<diskFrame, requests, granted>>

\* ---------------------------------------- cleanupFiles, checkDirectorySize
MaxAgeHours == 24
MaxSizeMB == 100
\* The directory arguments tried: the designated directory /s/d, its sibling
\* /s/d2, /e, and the relative path ../d2
SweepDirs ==
    { [string |-> TRUE, absolute |-> TRUE, segments |-> DirD],
      [string |-> TRUE, absolute |-> TRUE, segments |-> DirD2],
      [string |-> TRUE, absolute |-> TRUE, segments |-> DirE],
      [string |-> TRUE, absolute |-> FALSE, segments |-> <<Up, <<"d", "2">>>>] }

\* resolvedDir.startsWith(allowedDir)
SweepAllowed(resolvedDir) == startsWith(PathString(resolvedDir), PathString(DirD))
\* fs.readdir(resolvedDir)
Entries(files, resolvedDir) == {f \in files : f.dir = resolvedDir}
\* file-system.js skips hidden entries; file-system.ts does not
Skipped(version, f) ==
    version = "file-system.js" /\ (f.name[1] = "." \/ HasDotDot(f.name))

TooOld(version, f) ==
    f.regular /\ f.age > MaxAgeHours /\ ~Skipped(version, f)

Sweep(op, version, resolvedDir, deleted) ==
    [disk EXCEPT !.files = @ \ deleted,
                 !.op = [NoOp EXCEPT !.name = op, !.version = version,
                                     !.target = [dir |-> resolvedDir, name |-> <<>>],
                                     !.success = TRUE, !.deleted = deleted]]

\* cleanupFiles(directory) with the default maxAgeHours
CleanupFiles(version, directory, cwd) ==
    /\ disk.pc = "idle"
    /\ LET resolvedDir == resolve(directory.absolute, directory.segments, cwd)
       IN  disk' = Sweep("cleanupFiles", version, resolvedDir,
                         IF SweepAllowed(resolvedDir)
                         THEN {f \in Entries(disk.files, resolvedDir) : TooOld(version, f)}
                         ELSE {})
    /\ UNCHANGED <<diskFrame, requests, granted>>

\* The files counted by checkDirectorySize, and the orders in which
\* sort() by modification time can leave them: oldest first
Counted(version, files, resolvedDir) ==
    {f \in Entries(files, resolvedDir) :
        f.regular /\ ~(version = "file-system.js" /\ f.name[1] = ".")}
Orders(F) ==
    {order \in [1..Cardinality(F) -> F] :
        /\ \A i, j \in 1..Cardinality(F) : i # j => order[i] # order[j]
        /\ \A i, j \in 1..Cardinality(F) : i < j => order[i].age >= order[j].age}
RECURSIVE TotalSize(_)
TotalSize(order) == IF order = <<>> THEN 0 ELSE Head(order).size + TotalSize(Tail(order))
\* const maxDeletions = 50 of file-system.js
maxDeletions == 50
\* The files the deleting loop runs over: validFiles.slice(0, maxDeletions) in
\* file-system.js, every counted file in file-system.ts
Deletable(version, order) ==
    IF version = "file-system.js" /\ Len(order) > maxDeletions
    THEN SubSeq(order, 1, maxDeletions) ELSE order
\* Delete oldest files until under limit: the files fs.unlink is called on.
\* stuck: the files whose unlink throws; the catch block logs it and the loop
\* goes on with currentSize as it was.
RECURSIVE Attempted(_, _, _)
Attempted(order, currentSize, stuck) ==
    IF order = <<>> \/ currentSize <= MaxSizeMB * MB THEN {}
    ELSE {Head(order)} \cup
         Attempted(Tail(order),
                   IF Head(order) \in stuck THEN currentSize
                   ELSE currentSize - Head(order).size,
                   stuck)
Freed(order, currentSize, stuck) == Attempted(order, currentSize, stuck) \ stuck

\* checkDirectorySize(directory) with the default maxSizeMB
CheckDirectorySize(version, directory, cwd) ==
    /\ disk.pc = "idle"
    /\ LET resolvedDir == resolve(directory.absolute, directory.segments, cwd)
       IN  \E order \in Orders(Counted(version, disk.files, resolvedDir)) :
           \E stuck \in SUBSET Counted(version, disk.files, resolvedDir) :
              LET loop == Deletable(version, order)
                  tried == IF SweepAllowed(resolvedDir)
                           THEN Attempted(loop, TotalSize(order), stuck) ELSE {}
              IN  /\ stuck \subseteq tried
                  /\ disk' = [Sweep("checkDirectorySize", version, resolvedDir,
                                    IF SweepAllowed(resolvedDir)
                                    THEN Freed(loop, TotalSize(order), stuck)
                                    ELSE {})
                                EXCEPT !.op.stuck = stuck]
    /\ UNCHANGED <<diskFrame, requests, granted>>

BudgetDisk == steps < MaxDiskSteps /\ steps' = steps + 1
NextDisk ==
    \/ BudgetDisk /\ \E version \in Versions, savePath \in DownloadPaths,
                        dirOk \in BOOLEAN :
                          DownloadBegin(version, savePath, Cwd, dirOk)
    \/ BudgetDisk /\ \E saved \in BOOLEAN, written \in SavedSizes \cup {-1} :
                          ScriptReturns(saved, written)
    \/ BudgetDisk /\ \E version \in Versions, directory \in SweepDirs :
                          CleanupFiles(version, directory, Cwd)
    \/ BudgetDisk /\ \E version \in Versions, directory \in SweepDirs :
                          CheckDirectorySize(version, directory, Cwd)
InitDisk ==
    /\ activeGenerations = <<>>
    /\ completedGenerations = <<>>
    /\ requests = [k \in Keys |-> <<>>]
    /\ trigger = [i \in Ids |-> "none"]
    /\ calls = [s \in Slots |-> NoCall]
    /\ ui = [generating |-> FALSE, images |-> 0]
    /\ nextId = 1
    /\ steps = 0
    /\ lastStart = [result |-> "none", id |-> 0, prompt |-> "none",
                    allowed |-> FALSE, activeBefore |-> 0, activeAfter |-> 0]
    /\ lastRet = NoRet
    /\ returnedTerminal = {}
    /\ uiChanged = {}
    /\ granted = [k \in Keys |-> <<>>]
    /\ lastAllowed = [key |-> "none", result |-> FALSE, before |-> <<>>, refused |-> 0]
    /\ latestIssued = <<>>
    /\ lastLatest = [result |-> "none", earlier |-> 0, downloadPath |-> NoDownloadPath]
    /\ hist = NoHist
    /\ ask = IdleAsk
    /\ exec = IdleExec
    /\ tool = IdleTool
    /\ sec = IdleSec
    /\ disk = [NoDisk EXCEPT !.files = InitialFiles]
    /\ backoff = IdleBackoff
SpecDisk == InitDisk /\ [][NextDisk]_vars

\* ------------------------------------------- calculateDelay, retry waits
\* The largest number of retries a loop is started with.
MaxLoopRetries == 6
\* CONFIG.retry
baseDelay == 1000
maxDelay == 10000
backoffFactor == 2
\* Math.random() * 1000: at least 0, less than 1000 (whole milliseconds here)
Randoms == {0, 500, 999}
Loops == {"withRetry", "runAppleScript"}

Min(a, b) == IF a < b THEN a ELSE b

\* calculateDelay(attempt), its local `delay` and what it returns
cappedDelay_NoCap(attempt) == baseDelay * backoffFactor ^ attempt
cappedDelay(attempt) == Min(baseDelay * backoffFactor ^ attempt, maxDelay)
calculateDelay(attempt, random) == cappedDelay(attempt) + random

\* runAppleScript's `delay`: Exponential backoff, max 5s
scriptDelay(attempt) == Min(1000 * 2 ^ (attempt - 1), 5000)

\* The loop counter of the first attempt, and whether an attempt is the last
FirstAttempt(loop) == IF loop = "withRetry" THEN 0 ELSE 1
LastAttempt(b) ==
    IF b.loop = "withRetry" THEN b.attempt = b.maxRetries
    ELSE ~(b.attempt < b.maxRetries)

backoffFrame == <<trackerVars, requests, trigger, calls, ui, nextId, steps, lastStart,
                  lastRet, returnedTerminal, uiChanged, granted, lastAllowed,
                  latestIssued, lastLatest, hist, ask, exec, tool, sec, disk>>

\* withRetry(operation, name, maxRetries) or runAppleScript(script, retries)
\* is called.  runAppleScript's loop runs no attempt when retries < 1.
LoopBegin(loop, n) ==
    /\ backoff.pc \in {"idle", "done"}
    /\ backoff' = [IdleBackoff EXCEPT
                     !.pc = IF FirstAttempt(loop) = 1 /\ n < 1 THEN "done" ELSE "try",
                     !.loop = loop, !.maxRetries = n,
                     !.attempt = FirstAttempt(loop)]
    /\ UNCHANGED backoffFrame

\* The attempt returns: the loop ends with its result
AttemptSucceeds ==
    /\ backoff.pc = "try"
    /\ backoff' = [backoff EXCEPT !.pc = "done"]
    /\ UNCHANGED backoffFrame

\* The attempt throws: the loop gives up on the last attempt or on an error
\* that is not retryable; else it computes the delay and sleeps.
AttemptFails(retryable, random) ==
    /\ backoff.pc = "try"
    /\ backoff' =
         IF LastAttempt(backoff) \/ ~retryable
         THEN [backoff EXCEPT !.pc = "done"]
         ELSE IF backoff.loop = "withRetry"
         THEN [backoff EXCEPT !.pc = "sleep",
                 !.waits = Append(@, [attempt |-> backoff.attempt,
                                      delay |-> cappedDelay(backoff.attempt),
                                      wait |-> calculateDelay(backoff.attempt, random)])]
         ELSE [backoff EXCEPT !.pc = "sleep",
                 !.waits = Append(@, [attempt |-> backoff.attempt,
                                      delay |-> scriptDelay(backoff.attempt),
                                      wait |-> scriptDelay(backoff.attempt)])]
    /\ UNCHANGED backoffFrame

\* The timer fires: the next attempt
WaitOver ==
    /\ backoff.pc = "sleep"
    /\ backoff' = [backoff EXCEPT !.pc = "try", !.attempt = @ + 1]
    /\ UNCHANGED backoffFrame

NextBackoff ==
    \/ backoff.pc \in {"idle", "done"}
         /\ \E loop \in Loops, n \in 0..MaxLoopRetries : LoopBegin(loop, n)
    \/ AttemptSucceeds
    \/ \E retryable \in BOOLEAN, random \in Randoms : AttemptFails(retryable, random)
    \/ WaitOver

SpecBackoff == Init /\ [][NextBackoff]_vars

\* ============================================================ claims

\* C1: in every reachable state no generation id is in both the active-jobs
\* map and the completed-statuses map, whatever the interleaving of starts,
\* status checks suspended at their poll, trigger failures and cleanup.
C1_NeverInBothMaps ==
    MapKeys(activeGenerations) \cap MapKeys(completedGenerations) = {}

\* C1's case: a terminal record was written for a job while a status check
\* that read the job as active is still suspended at its automation call.
C1_Witness ==
    \E s \in Slots :
        /\ calls[s] # NoCall
        /\ MapHas(completedGenerations, calls[s].id)
        /\ MapGet(completedGenerations, calls[s].id).status = "failed"

\* C2: once a terminal record is stored for an id, no later step replaces or
\* alters it while it stays in the map: its status, its error and its
\* timestamp (the instant it names) stay what they were.
C2_TerminalRecordNeverChanges ==
    [][\A id \in MapKeys(completedGenerations) \cap MapKeys(completedGenerations') :
         LET old == MapGet(completedGenerations, id)
             new == MapGet(completedGenerations', id)
         IN  /\ new.status = old.status
             /\ new.error = old.error
             /\ new.timestamp >= old.timestamp]_vars

\* C3: once some status call has returned completed or failed for an id, no
\* status call for that id that returns afterwards returns generating.
C3_NoGeneratingAfterTerminal ==
    ~(lastRet.status = "generating" /\ lastRet.id \in returnedTerminal)

\* C4: a status call made on an active job that is more than thirty minutes
\* old ends with the job out of the active map and returns failed with the
\* timeout error.
C4_ExpiredJobFailsInThatCall ==
    lastRet.expired =>
        /\ lastRet.status = "failed"
        /\ lastRet.error = TimeoutError
        /\ ~MapHas(activeGenerations, lastRet.id)

\* C6 as stated: the active jobs never exceed 10, and every start call made
\* while 10 jobs are active fails with BatchLimitExceeded and adds no job.
C6_StartAtCapFailsBatchLimit ==
    /\ Len(activeGenerations) <= BatchLimit
    /\ lastStart.activeBefore >= BatchLimit =>
         /\ lastStart.result = "BATCH_LIMIT_EXCEEDED"
         /\ lastStart.activeAfter = lastStart.activeBefore

\* C6, amended: the active jobs never exceed 10; a start call made while 10
\* jobs are active adds no job, and when its prompt is valid and the limiter
\* admits it, it fails with BatchLimitExceeded.
C6_ValidStartAtCapFailsBatchLimit ==
    /\ Len(activeGenerations) <= BatchLimit
    /\ lastStart.activeBefore >= BatchLimit =>
         /\ lastStart.activeAfter = lastStart.activeBefore
         /\ (lastStart.prompt = "ok" /\ lastStart.allowed) =>
              lastStart.result = "BATCH_LIMIT_EXCEEDED"

\* C6's case: a valid start, admitted by the limiter, was refused at ten
\* active jobs.
C6_Witness ==
    /\ lastStart.activeBefore = BatchLimit
    /\ lastStart.result = "BATCH_LIMIT_EXCEEDED"
    /\ Len(activeGenerations) = BatchLimit

\* C9: for each key, no 60-second window holds more than 5 isAllowed calls
\* that returned true; a call returns false exactly when 5 calls that returned
\* true lie within the 60 seconds before it, so the 6th call inside a window
\* is refused and a call made once the window has elapsed is allowed.
C9_AtMostFivePerWindow ==
    /\ \A k \in Keys : \A i \in 1..Len(granted[k]) :
          granted[k][i] < AgeCap =>
             Cardinality({j \in 1..Len(granted[k]) :
                            /\ granted[k][j] <= granted[k][i]
                            /\ granted[k][i] - granted[k][j] < WindowMs})
               <= MaxRequests
    /\ lastAllowed.key # "none" =>
          (lastAllowed.result <=>
             Len(SelectSeq(lastAllowed.before, LAMBDA t : t < WindowMs)) < MaxRequests)

\* C9's case: after a refusal, a call finds the five allowed calls a full
\* window old and is allowed.
C9_Witness ==
    /\ lastAllowed.result
    /\ lastAllowed.refused > 0
    /\ Len(lastAllowed.before) = MaxRequests
    /\ \A i \in 1..Len(lastAllowed.before) : lastAllowed.before[i] >= WindowMs

\* C10: a get_latest_image request issued with fewer than 5 earlier requests
\* in the last 60 seconds passes the limiter and reaches the UI-automation
\* call; only a request with 5 or more before it is rejected as RateLimited.
C10_FirstFiveReachUI ==
    (lastLatest.result # "none" /\ lastLatest.earlier < MaxRequests) =>
        lastLatest.result = "ui_call"

\* C7: a status call made and answered in the instant of the start, with the
\* window still as it was at the start, returns generating.
C7_StatusRightAfterStartGenerating ==
    lastRet.fresh => lastRet.status = "generating"

\* C8, for a job whose record has been returned as completed or failed: the
\* next status call for the id, made with the window unchanged, returns that
\* same record (status, timestamp - the instant it names - and error) and
\* writes nothing to the tracker.
C8_TerminalRecordReturnedAgain ==
    Terminal(lastRet.prev.status) =>
        /\ lastRet.status = lastRet.prev.status
        /\ lastRet.timestamp = lastRet.prev.timestamp
        /\ lastRet.error = lastRet.prev.error
        /\ ~lastRet.moved

\* C5: with the status of every job asked again and again, every job that is
\* active is eventually active no more: it has reached completed or failed.
C5_EveryJobEventuallyEnds ==
    \A id \in Ids :
        MapHas(activeGenerations, id) ~> ~MapHas(activeGenerations, id)

\* C12: when the background trigger of a job fails, the job leaves the active
\* map and a failed record with the trigger's error is stored under its id,
\* so that a status call for that id made after the failure, finding the
\* record, returns failed with that error.
C12_StatusAfterTriggerFailureIsFailed ==
    \A id \in hist.trigFailed :
        (lastRet.id = id /\ lastRet.poll = "none" /\ lastRet.status # "null")
            => (lastRet.status = "failed" /\ lastRet.error = TriggerError)

\* The step of the failure itself: the record is written and the job removed
C12_FailureStepRecords ==
    [][\A id \in Ids :
          (id \in hist'.trigFailed /\ id \notin hist.trigFailed)
              => /\ ~MapHas(activeGenerations', id)
                 /\ MapGet(completedGenerations', id) = FailedRecord(id, TriggerError)]_vars

\* The jobs and records of the tracker without their times, which are kept
\* as elapsed times and grow with the clock
Jobs(active) == [i \in 1..Len(active) |-> active[i].id]
Records(completed) ==
    [i \in 1..Len(completed) |-> [completed[i] EXCEPT !.timestamp = 0]]

\* C13: a UI poll that fails (the automation call fails or throws, or the rate
\* limiter refuses it) never makes the status call raise: for a job that is
\* still active and not older than thirty minutes the call returns the job's
\* generating status, with its start time, and leaves both maps as they were.
C13_PollFailureReturnsGenerating ==
    [][(lastRet' # lastRet /\ lastRet'.poll \in {"failed", "rate_limited"})
          => /\ lastRet'.status \in {"generating", "failed"}
             /\ (/\ MapHas(activeGenerations, lastRet'.id)
                 /\ MapGet(activeGenerations, lastRet'.id).started_at <= ThirtyMinutes)
                    => /\ lastRet'.status = "generating"
                       /\ MapHas(activeGenerations', lastRet'.id)
                       /\ lastRet'.timestamp =
                            MapGet(activeGenerations', lastRet'.id).started_at
                       /\ ~lastRet'.moved
                       /\ Jobs(activeGenerations') = Jobs(activeGenerations)
                       /\ Records(completedGenerations') =
                            Records(completedGenerations)]_vars

C13_Witness ==
    /\ lastRet.poll = "failed"
    /\ lastRet.status = "generating"
    /\ lastRet.timestamp = ThirtyMinutes
    /\ MapHas(activeGenerations, lastRet.id)

\* C14 as claimed: a start whose prompt is longer than 4000 characters fails
\* with InvalidInput.
C14_LongPromptFailsInvalidInput ==
    PromptLength(lastStart.prompt) > MaxPromptLength
        => lastStart.result = "INVALID_INPUT"

\* C14: a start whose prompt is longer than 4000 characters fails, with
\* PromptTooLong (with InvalidInput when the prompt is blank), creates no job,
\* leaves both maps and the limiter as they were and issues no trigger call.
C14_LongPromptCreatesNoJob ==
    [][(lastStart' # lastStart
          /\ PromptLength(lastStart'.prompt) > MaxPromptLength)
          => /\ lastStart'.result =
                  IF Blank(lastStart'.prompt) THEN "INVALID_INPUT"
                  ELSE "PROMPT_TOO_LONG"
             /\ trackerVars' = trackerVars
             /\ trigger' = trigger
             /\ requests' = requests
             /\ nextId' = nextId]_vars

C14_Witness ==
    /\ lastStart.prompt = "too_long"
    /\ lastStart.result = "PROMPT_TOO_LONG"
    /\ lastStart.activeBefore > 0

\* The ids start() has returned so far
Issued == 1..(nextId - 1) \cup MapKeys(activeGenerations) \cup MapKeys(completedGenerations)

\* C15 as claimed: a status call for an id that start never returned returns
\* null.
C15_UnknownIdReturnsNull ==
    (lastRet # NoRet /\ lastRet.id \notin Issued) => lastRet.status = "null"

\* C15: a status call for a non-empty id that start never returned returns
\* null, a status call for the empty id fails with InvalidInput, and both
\* leave the two maps as they were.
C15_UnknownStringIdReturnsNull ==
    [][(lastRet' # lastRet /\ lastRet' # NoRet /\ lastRet'.id \notin Issued')
          => /\ lastRet'.status =
                  IF lastRet'.id = EmptyId THEN "INVALID_INPUT" ELSE "null"
             /\ ~lastRet'.moved
             /\ Jobs(activeGenerations') = Jobs(activeGenerations)
             /\ Records(completedGenerations') = Records(completedGenerations)]_vars

C15_Witness ==
    /\ lastRet.id \in Ids
    /\ lastRet.id \notin Issued
    /\ lastRet.status = "null"
    /\ activeGenerations # <<>>

\* The step is a run of cleanup()
CleanupStep == hist'.cleanups # hist.cleanups

\* C16: after cleanup() has run, no terminal record more than one hour old
\* remains and a status call for the id of an evicted record finds nothing
\* (null); a record not older than one hour is kept as it was, unless more
\* than MAX_COMPLETED records remain.
C16_CleanupEvictsOlderThanOneHour ==
    [][CleanupStep =>
          \A id \in MapKeys(completedGenerations) :
              LET r == MapGet(completedGenerations, id)
              IN  /\ r.timestamp > OneHour
                      => /\ ~MapHas(completedGenerations', id)
                         /\ GetStatus(id)'.status = "null"
                  /\ (r.timestamp <= OneHour
                        /\ Len(completedGenerations) <= MAX_COMPLETED)
                      => /\ MapHas(completedGenerations', id)
                         /\ MapGet(completedGenerations', id) = r]_vars

C16_Witness ==
    /\ hist.cleanups = 1
    /\ \E id \in hist.trigFailed :
          /\ ~MapHas(completedGenerations, id)
          /\ lastRet.id = id
          /\ lastRet.status = "null"

C18_RetryOnlyOnClaimedPatterns ==
    exec.lastFail # NoFail =>
        (exec.lastFail.retried <=>
            /\ exec.lastFail.msg.text \in
                  {"busy", "timeout", "network", "application is not running",
                   "ChatGPT is not running"}
            /\ exec.lastFail.attempt < exec.lastFail.retries)

\* C18: a failed attempt is retried exactly when its error message contains,
\* in any case of letters, one of: application is not running, connection
\* timed out, busy, temporary, network, timeout, and attempts remain;
\* otherwise the run returns the failure at once with that message.
C18_RetryOnlyOnTransientPatterns ==
    exec.lastFail # NoFail =>
        /\ exec.lastFail.retried <=>
              /\ exec.lastFail.msg.text \in
                    {"application is not running", "connection timed out",
                     "busy", "temporary", "network", "timeout"}
              /\ exec.lastFail.attempt < exec.lastFail.retries
        /\ exec.lastFail.retried => exec.pc \in {"sleep", "call"} \/ exec.attempt > exec.lastFail.attempt
        /\ ~exec.lastFail.retried =>
              /\ exec.pc = "done"
              /\ ~exec.success
              /\ exec.error = exec.lastFail.msg
              /\ exec.calls = exec.lastFail.attempt

C18_Witness ==
    /\ exec.lastFail.retried
    /\ exec.lastFail.msg = [text |-> "temporary", upper |-> TRUE]
    /\ exec.pc = "sleep"

\* A request of core/server.ts for the tool 'chatgpt' that carries arguments
\* and has gone through handleChatGPTTool
Dispatched ==
    /\ tool.pc \in {"handler", "done"}
    /\ tool.server = "server.ts"
    /\ tool.name = "chatgpt"
    /\ tool.args # NoArgs
\* The operation is one of the six and the arguments it requires are there
KnownWithRequired(args) ==
    /\ args.operation \in {"ask", "get_conversations", "generate_image",
                           "start_image_generation", "check_generation_status",
                           "get_latest_image"}
    /\ args.operation \in {"ask", "generate_image", "start_image_generation"}
          => args.prompt = "string"
    /\ args.operation = "check_generation_status" => args.generation_id = "string"
\* Every argument that is supplied has its declared type
SuppliedWellTyped(args) ==
    /\ args.prompt \in {"undefined", "string", "empty"}
    /\ args.generation_id \in {"undefined", "string", "empty"}
    /\ args.conversation_id \in {"undefined", "string"}
    /\ args.download_image \in {"undefined", "true", "false"}
    /\ args.max_retries \in {"undefined", "number"}

\* C19: handleChatGPTTool routes a request to an operation handler only when
\* its operation is one of the six known names, the arguments that operation
\* requires are present and every supplied argument has its declared type
\* (string, boolean or number); every other request ends, before any handler
\* runs, in the error response 'Invalid arguments for ChatGPT tool'.
C19_DispatcherValidates ==
    Dispatched =>
        /\ tool.handler # "none" =>
              /\ KnownWithRequired(tool.args)
              /\ SuppliedWellTyped(tool.args)
        /\ ~(KnownWithRequired(tool.args) /\ SuppliedWellTyped(tool.args)) =>
              /\ tool.handler = "none"
              /\ tool.pc = "done"
              /\ tool.response = Envelope("Invalid arguments", "true")

\* C20: every tool call, whatever its arguments and whatever the routed
\* handler throws, ends in a response envelope with a text payload and an
\* error flag, and the flag is set on every response that reports a failure.
C20_EveryCallYieldsFlaggedEnvelope ==
    tool.pc = "done" =>
        /\ tool.response.text # "none"
        /\ tool.response.isError \in {"true", "false"}
        /\ tool.failed => tool.response.isError = "true"

\* A finished validateSavePath call
Validated == sec.pc = "done" /\ sec.op = "validateSavePath"
\* The resolved candidate is the designated directory or lies below it: its
\* first segments are the segments of the designated directory
InsideRoot(resolved) ==
    /\ Len(resolved) >= Len(AllowedBaseDir.segments)
    /\ \A i \in 1..Len(AllowedBaseDir.segments) :
          resolved[i] = AllowedBaseDir.segments[i]
NonEmptyString(customPath) ==
    customPath.string /\ (customPath.absolute \/ customPath.segments # <<>>)

\* C21: validateSavePath succeeds only if the resolved candidate equals the
\* resolved designated directory or is nested under it, and then returns the
\* resolved path; every candidate path that resolves outside it (through '..'
\* segments, as an absolute path elsewhere, or in a sibling directory whose
\* name begins with the directory's name) fails with the path traversal
\* error.  A candidate that is no string or the empty string is not resolved
\* at all and fails as an invalid path.
C21_OnlyPathsInsideRootAccepted ==
    Validated =>
        /\ sec.result.ok =>
              /\ InsideRoot(sec.resolved)
              /\ sec.result.value = PathString(sec.resolved)
        /\ (NonEmptyString(sec.customPath) /\ ~InsideRoot(sec.resolved)) =>
              /\ ~sec.result.ok
              /\ sec.result.error = "Path traversal detected"
        /\ ~NonEmptyString(sec.customPath) => ~sec.result.ok
\* a file of the sibling directory /s/d2 has been refused as a traversal
C21_Witness ==
    /\ Validated
    /\ sec.customPath.absolute
    /\ sec.customPath.segments = <<<<"s">>, <<"d", "2">>, <<"i", ".", "png">>>>
    /\ sec.result.error = "Path traversal detected"

\* The file name of the resolved candidate and its extension in lower case
FileName == basename(sec.resolved)
Extension == extToLowerCase(extname(FileName))

\* C22: every path accepted by validateSavePath has a non-empty base name
\* that does not start with '.' and an extension among .png, .jpg, .jpeg,
\* .gif, .webp; a path inside the designated directory with a hidden, empty
\* or over-long file name fails with the invalid filename error, and one
\* with any other extension fails with the invalid extension error.
C22_AcceptedPathsAreImageFiles ==
    Validated =>
        /\ sec.result.ok =>
              /\ FileName # <<>>
              /\ FileName[1] # "."
              /\ Extension \in allowedExtensions
        /\ (NonEmptyString(sec.customPath) /\ InsideRoot(sec.resolved)) =>
              /\ (FileName = <<>> \/ FileName[1] = "." \/ Length(FileName) > 255)
                    => sec.result = Thrown("Invalid filename")
              /\ (FileName # <<>> /\ FileName[1] # "." /\ Length(FileName) <= 255
                     /\ Extension \notin allowedExtensions)
                    => sec.result = Thrown("Invalid file extension")

\* The downloadPath of the latest getLatestImage call is a string that
\* resolves outside the designated directory, whatever the working directory
CustomPathOutside ==
    /\ lastLatest.result # "none"
    /\ lastLatest.downloadPath.string
    /\ \A cwd \in WorkingDirs :
          ~InsideRoot(resolve(lastLatest.downloadPath.absolute,
                              CleanPath(lastLatest.downloadPath.segments), cwd))

\* C23: getLatestImage called with a custom save path validates the path
\* against the designated directory before any UI-automation call: with a
\* path that resolves outside the designated directory the call issues no
\* automation call and, unless it is refused by the rate limiter first,
\* fails with the path traversal error.
C23_OutsidePathStopsGetLatestImage ==
    CustomPathOutside =>
        /\ lastLatest.result # "ui_call"
        /\ lastLatest.result \in {"RATE_LIMITED", "PATH_TRAVERSAL"}

\* A finished downloadImageFromChatGPT call
Downloaded == disk.pc = "idle" /\ disk.op.name = "download"
SoundSize(f) == f.size > 0 /\ f.size <= MaxFileSizeMB * MB

\* C24: download reports success only when the target file exists, is not
\* empty and is at most 50 MB; when the script has reported the image saved
\* and the saved file is empty or larger, the file is deleted and the result
\* is a failure, so no such file is left at the target.
C24_DownloadSuccessMeansSoundFile ==
    Downloaded =>
        /\ disk.op.success =>
              \E f \in At(disk.files, disk.op.target) : f.regular /\ SoundSize(f)
        /\ disk.op.saved =>
              \A f \in At(disk.files, disk.op.target) : SoundSize(f)

\* A finished sweep: cleanupFiles (by age) or checkDirectorySize (by size)
SweepDone == disk.op.name \in {"cleanupFiles", "checkDirectorySize"}

\* C25: the age and size sweeps only ever delete regular files located
\* inside the designated download directory: a sweep invoked on a directory
\* that resolves outside it, a sibling directory whose path begins with the
\* designated directory's path included, deletes nothing.
C25_SweepsDeleteOnlyInsideDesignatedDir ==
    SweepDone =>
        /\ \A f \in disk.op.deleted : f.regular /\ InsideRoot(f.dir)
        /\ ~InsideRoot(disk.op.target.dir) => disk.op.deleted = {}

\* A finished sanitizeForAppleScript call
Sanitized == sec.pc = "done" /\ sec.op = "sanitizeForAppleScript"
\* The input is no usable string: no string, the empty string, white space
\* only, or longer than the maximum length
Unusable(input) ==
    \/ ~input.string
    \/ \A i \in 1..Len(input.chars) : input.chars[i] \in {" ", "LF", "CR", "TAB"}
    \/ Length(input.chars) > MaxPromptLength

\* C26: sanitizeForAppleScript rejects with the invalid input error every
\* input that is not a usable string (a non-string value, the empty string,
\* a string of white space only, a string over the maximum length), so no
\* such input is turned into script text.
C26_SanitizeRejectsUnusableInput ==
    (Sanitized /\ Unusable(sec.input)) =>
        sec.result = Thrown("Invalid input for AppleScript sanitization")

\* C27: a job leaves the active set only by being recorded as completed or
\* failed: in every step, cleanup() included, each id that is removed from
\* the active map has a completed or failed record afterwards.  The active
\* map never holds more than the batch limit of ten jobs, so the eviction of
\* cleanup(), which starts above fifty, never applies to it.
C27_ActiveJobLeavesOnlyWithRecord ==
    /\ [](Len(activeGenerations) <= BatchLimit)
    /\ [][\A id \in MapKeys(activeGenerations) :
            ~MapHas(activeGenerations', id) =>
               /\ MapHas(completedGenerations', id)
               /\ MapGet(completedGenerations', id).status \in {"completed", "failed"}]_vars
\* cleanup() has run with the active map at the batch limit
C27_Witness ==
    /\ hist.cleanups = 1
    /\ Len(activeGenerations) = BatchLimit

\* C28: an isAllowed(key) call that returns false records nothing: the
\* stored instants of the key are the same after the call as before, and so
\* are those of every other key; the denied call therefore does not change
\* whether or when a later call for any key is allowed.
C28_DeniedCallRecordsNothing ==
    [][lastAllowed'.refused = lastAllowed.refused + 1 =>
         /\ ~lastAllowed'.result
         /\ ~Allowed(requests, lastAllowed'.key)
         /\ requests' = requests
         /\ \A k \in Keys : Allowed(requests', k) <=> Allowed(requests, k)]_vars
\* a call for ui_polling has just been denied while five instants are stored
C28_Witness ==
    /\ lastAllowed.key = "ui_polling"
    /\ ~lastAllowed.result
    /\ lastAllowed.refused > 0
    /\ Len(requests["ui_polling"]) = MaxRequests

\* C29: after cleanup() has run the completed map holds at most MAX_COMPLETED
\* (100) records, and every record it removed was inserted no later than every
\* record it kept (a timestamp no later is an age no smaller).
C29_CapEvictsOldestCompleted ==
    [][CleanupStep =>
          /\ Len(completedGenerations') <= MAX_COMPLETED
          /\ \A evicted \in MapKeys(completedGenerations)
                              \ MapKeys(completedGenerations') :
               \A retained \in MapKeys(completedGenerations') :
                  MapGet(completedGenerations, evicted).timestamp
                     >= MapGet(completedGenerations, retained).timestamp]_vars

\* cleanup() has run on a map above the cap: the second record is gone while
\* the third, inserted at the same instant, is still held, and the map is
\* exactly at the cap.
C29_Witness ==
    /\ hist.cleanups = 1
    /\ Len(completedGenerations) = MAX_COMPLETED
    /\ ~MapHas(completedGenerations, FullId(2))
    /\ MapHas(completedGenerations, FullId(3))
    /\ \E n \in FullSizes :
          FullAge("apart", n, 2) = FullAge("apart", n, 3)

\* The cap of a loop's delay, and min(base * 2^k, cap) for the k-th wait of a
\* loop (k from 0) with base one second
CapOf(loop) == IF loop = "withRetry" THEN maxDelay ELSE 5000
Expected(k, cap) == IF 1000 * 2 ^ k <= cap THEN 1000 * 2 ^ k ELSE cap
\* The waits of the loop follow the capped doubling: the k-th has the
\* deterministic part min(1 s * 2^k, cap), which never falls from one wait to
\* the next and never exceeds the cap.
DelaysDoubleToCap ==
    \A i \in 1..Len(backoff.waits) :
        LET w == backoff.waits[i]
        IN  /\ w.delay = Expected(i - 1, CapOf(backoff.loop))
            /\ w.delay <= CapOf(backoff.loop)
            /\ i > 1 => backoff.waits[i - 1].delay <= w.delay
\* An attempt that can fail and be retried
RetryAhead == backoff.pc = "try" /\ ~LastAttempt(backoff)
\* The wait about to be made can be longer than its deterministic part
JitterPossible ==
    ENABLED (\E random \in Randoms :
                /\ AttemptFails(TRUE, random)
                /\ backoff'.waits[Len(backoff'.waits)].wait
                      > backoff'.waits[Len(backoff'.waits)].delay)

\* C30 as stated: the wait before a retry is min(base * 2^attempt, cap) plus
\* random jitter, with base 1 s; the deterministic part is non-decreasing over
\* successive attempts (1 s, 2 s, 4 s, ...) and never exceeds the cap.
C30_WaitIsCappedBackoffPlusJitter ==
    /\ DelaysDoubleToCap
    /\ \A i \in 1..Len(backoff.waits) :
          backoff.waits[i].wait - backoff.waits[i].delay \in 0..999
    /\ RetryAhead => JitterPossible

\* C30, amended: the wait before a retry is min(base * 2^k, cap) for the k-th
\* wait of the loop (k from 0), with base 1 s, plus a random jitter of less
\* than 1 s in withRetry and nothing in runAppleScript; the deterministic part
\* is non-decreasing over successive attempts and never exceeds the cap (10 s
\* in withRetry, 5 s in runAppleScript).
C30_WaitIsCappedBackoffJitterInWithRetry ==
    /\ DelaysDoubleToCap
    /\ \A i \in 1..Len(backoff.waits) :
          IF backoff.loop = "withRetry"
          THEN backoff.waits[i].wait - backoff.waits[i].delay \in 0..999
          ELSE backoff.waits[i].wait = backoff.waits[i].delay
    /\ RetryAhead => (JitterPossible <=> backoff.loop = "withRetry")

\* withRetry has waited 8 s and then the cap of 10 s, with jitter added to it
C30_Witness ==
    /\ backoff.loop = "withRetry"
    /\ \E i \in 2..Len(backoff.waits) :
          /\ backoff.waits[i].delay = maxDelay
          /\ backoff.waits[i - 1].delay < maxDelay
          /\ backoff.waits[i].wait > maxDelay

\* checkDirectorySize(directory) has just run on a directory inside the
\* designated one, and every fs.unlink it called succeeded
SizeCheckStep ==
    /\ disk'.op.name = "checkDirectorySize"
    /\ InsideRoot(disk'.op.target.dir)
    /\ disk'.op.stuck = {}
\* The regular files of a directory and their total size in bytes
FilesIn(files, dir) == {f \in files : f.dir = dir /\ f.regular}
RECURSIVE SizeOf(_)
SizeOf(F) ==
    IF F = {} THEN 0
    ELSE LET f == CHOOSE x \in F : TRUE IN f.size + SizeOf(F \ {f})

\* C31: size-based cleanup evicts oldest first.  When every deletion of a
\* checkDirectorySize call succeeds: it deletes only when the directory
\* total exceeds maxSizeMB, no file is deleted while an older file of the
\* directory is kept, deleting stops as soon as the total is at or below the
\* ceiling (with a youngest deleted file still there the total was above
\* it), and the directory ends at or below the ceiling.
C31_SizeCleanupEvictsOldestFirst ==
    [][SizeCheckStep =>
          LET dir == disk'.op.target.dir
              before == FilesIn(disk.files, dir)
              after == FilesIn(disk'.files, dir)
              gone == disk'.op.deleted
          IN  /\ gone = before \ after
              /\ gone # {} => SizeOf(before) > MaxSizeMB * MB
              /\ \A d \in gone : \A k \in after : k.age <= d.age
              /\ gone # {} =>
                    \E d \in gone :
                       /\ \A o \in gone : o.age >= d.age
                       /\ SizeOf(after) + d.size > MaxSizeMB * MB
              /\ SizeOf(after) <= MaxSizeMB * MB]_vars

\* The slots of the 'start_image_generation' window still free
StartSlots(R) == GetRemainingRequests(R["start_image_generation"])

\* C32: start checks the prompt, then the rate limit, then the batch cap.  A
\* start rejected for a blank or over-long prompt leaves the limiter as it
\* was; a start rejected with BatchLimitExceeded has taken one slot of the
\* start_image_generation window; a valid start made with that window
\* exhausted and ten jobs active fails with RateLimited and takes nothing.
C32_StartChecksPromptThenLimiterThenCap ==
    [][\A p \in Prompts :
          Start(p) =>
             /\ (Blank(p) \/ PromptLength(p) > MaxPromptLength)
                   => /\ lastStart'.result \in {"INVALID_INPUT", "PROMPT_TOO_LONG"}
                      /\ requests' = requests
             /\ lastStart'.result = "BATCH_LIMIT_EXCEEDED"
                   => /\ Len(activeGenerations) >= BatchLimit
                      /\ StartSlots(requests) > 0
                      /\ StartSlots(requests') = StartSlots(requests) - 1
                      /\ activeGenerations' = activeGenerations
             /\ (p = "ok" /\ StartSlots(requests) = 0
                   /\ Len(activeGenerations) >= BatchLimit)
                   => /\ lastStart'.result = "RATE_LIMITED"
                      /\ requests' = requests]_vars

\* Ten jobs are active and none has ended; a start has been rejected with
\* RateLimited, and the window holds a slot taken at an instant at which no
\* job was started: the slot of an earlier start rejected at the cap.
C32_Witness ==
    /\ lastStart.result = "RATE_LIMITED"
    /\ lastStart.prompt = "ok"
    /\ lastStart.activeBefore = BatchLimit
    /\ Len(activeGenerations) = BatchLimit
    /\ completedGenerations = <<>>
    /\ \E i \in 1..Len(requests["start_image_generation"]) :
          \A j \in 1..Len(activeGenerations) :
             activeGenerations[j].started_at
                # requests["start_image_generation"][i]

====
